---- MODULE Spec2Model ----
(***************************************************************************)
(* clickcheck: the concurrent multi-node streaming aggregation pipeline.   *)
(*                                                                         *)
(*   command.rs   top_queries / total_queries / top_errors: create the     *)
(*                bounded channel, join the stream task and the analyzer   *)
(*                task, print on success                                   *)
(*   client.rs    Client::execute_on_all_nodes: one future per node,       *)
(*                joined with futures::future::try_join_all, which polls   *)
(*                up to SMALL futures itself and hands more of them to a   *)
(*                FuturesOrdered                                           *)
(*   analyzer.rs  Analyzer: merge_query / merge_error / merge_query_total, *)
(*                collect_*, top_queries / top_errors                      *)
(***************************************************************************)
EXTENDS Integers, Sequences, FiniteSets, TLC

(***************************************************************************)
(* Bounds of the model.                                                    *)
(***************************************************************************)
\* u64 is modelled with a reduced width: all u64 arithmetic is taken modulo
\* 2^U64Bits, and the rows below carry values close to that modulus so that
\* overflow happens.
U64Bits == 24
\* largest number of configured nodes (Client.nodes)
MaxNodes == 2
\* largest number of rows the cursors of all nodes yield together
MaxRows == 3
\* largest channel capacity explored by the pipeline specification
MaxCapacity == 2
\* largest number of rows fed to the analyzer in the merge specification
MaxFeed == 3

\* most elements in the allow-lists of a filter, all lists together
MaxList == 2

\* command.rs:35, 72, 93: mpsc::channel(128)
CHANNEL_CAPACITY == 128

\* client.rs:165: futures::future::try_join_all polls up to this many
\* futures itself, in index order (futures-util, join_all::SMALL); a longer
\* list of futures is collected into a FuturesOrdered.
SMALL == 30

U64Modulus == 2 ^ U64Bits

(***************************************************************************)
(* Unsigned 64-bit arithmetic.  `a += b` on u64 wraps around in a build    *)
(* without overflow checks and panics in a build with overflow checks.     *)
(***************************************************************************)
WrapU64(x) == x % U64Modulus

AddU64(a, b) == WrapU64(a + b)

AddOverflows(a, b) == a + b >= U64Modulus

MaxOf(a, b) == IF a >= b THEN a ELSE b

MinOf(a, b) == IF a <= b THEN a ELSE b

(***************************************************************************)
(* Strings.  Rust orders String values byte-wise; Names lists the strings  *)
(* the rows use in that order, so the position in Names is the rank.       *)
(***************************************************************************)
Names == <<"alice", "bob", "carol", "db1", "db2", "t1", "t2">>

StrRank(s) == CHOOSE i \in 1..Len(Names) : Names[i] = s

StrLess(a, b) == StrRank(a) < StrRank(b)

StrLessEq(a, b) == StrRank(a) <= StrRank(b)

\* Vec::sort_unstable on strings: the ascending arrangement of the elements
\* (equal strings are indistinguishable, so it is unique).  The element at
\* position i is the one with fewer than i elements below it and at least i
\* elements not above it.
sort_unstable(s) ==
    [ i \in 1..Len(s) |->
        CHOOSE x \in {s[j] : j \in 1..Len(s)} :
            /\ Cardinality({j \in 1..Len(s) : StrLess(s[j], x)}) < i
            /\ Cardinality({j \in 1..Len(s) : StrLessEq(s[j], x)}) >= i ]

\* Vec::dedup: removes consecutive repeated elements, keeping the first of
\* each run.
dedup(s) ==
    LET kept == {i \in 1..Len(s) : i = 1 \/ s[i] # s[i - 1]}
    IN  [ k \in 1..Cardinality(kept) |->
            s[CHOOSE i \in kept : Cardinality({j \in kept : j <= i}) = k] ]

\* A plausible slip: extend without the sort, dedup alone.
merge_string_vecs_unsorted(target, source) == dedup(target \o source)

\* analyzer.rs:194-198: extend_from_slice, sort_unstable, dedup, each applied
\* to the result of the step before
merge_string_vecs(target, source) ==
    CHOOSE result \in
        { dedup(sorted) :
            sorted \in { sort_unstable(extended) :
                            extended \in {target \o source} } } : TRUE

IsSortedStrict(s) == \A i \in 1..(Len(s) - 1) : StrLess(s[i], s[i + 1])

Range(s) == {s[i] : i \in DOMAIN s}

(***************************************************************************)
(* Rows.                                                                   *)
(***************************************************************************)
\* The weighted scores as the node query computes them from its local sums
\* (client.rs:205-210, 323-328); ClickHouse UInt64 arithmetic wraps.
io_impact_of(raw) ==
    WrapU64(raw.total_read_rows * 100 + raw.total_read_bytes * 1)

network_impact_of(raw) ==
    WrapU64(raw.total_network_receive_bytes * 10 + raw.total_network_send_bytes * 10)

cpu_impact_of(raw) ==
    WrapU64(raw.total_user_time_us * 10000 + raw.total_system_time_us * 10000)

memory_impact_of(raw) == WrapU64(raw.total_memory_usage * 10)

time_impact_of(raw) == WrapU64(raw.total_query_duration_ms * 1000000)

total_impact_of(raw) ==
    WrapU64(io_impact_of(raw) + network_impact_of(raw) + cpu_impact_of(raw)
            + memory_impact_of(raw) + time_impact_of(raw))

\* model.rs:12-38, struct QueryLog, the element of the channel between
\* Client::stream_logs_by_fingerprint and analyzer::top_queries.  Its six
\* scores are given here by the weight table of the node query over its own
\* eight counters.
QueryLog(hash, query, min_t, max_t, raw, users, databases, tables) ==
    [ normalized_query_hash       |-> hash,
      query                       |-> query,
      max_event_time              |-> max_t,
      min_event_time              |-> min_t,
      total_query_duration_ms     |-> raw.total_query_duration_ms,
      total_read_rows             |-> raw.total_read_rows,
      total_read_bytes            |-> raw.total_read_bytes,
      total_memory_usage          |-> raw.total_memory_usage,
      total_user_time_us          |-> raw.total_user_time_us,
      total_system_time_us        |-> raw.total_system_time_us,
      total_network_receive_bytes |-> raw.total_network_receive_bytes,
      total_network_send_bytes    |-> raw.total_network_send_bytes,
      users                       |-> users,
      databases                   |-> databases,
      tables                      |-> tables,
      io_impact                   |-> io_impact_of(raw),
      network_impact              |-> network_impact_of(raw),
      cpu_impact                  |-> cpu_impact_of(raw),
      memory_impact               |-> memory_impact_of(raw),
      time_impact                 |-> time_impact_of(raw),
      total_impact                |-> total_impact_of(raw) ]

\* model.rs:41-50
QueryLogTotal(count, raw) ==
    [ queries_count  |-> count,
      io_impact      |-> io_impact_of(raw),
      network_impact |-> network_impact_of(raw),
      cpu_impact     |-> cpu_impact_of(raw),
      memory_impact  |-> memory_impact_of(raw),
      time_impact    |-> time_impact_of(raw),
      total_impact   |-> total_impact_of(raw) ]

\* model.rs:189-196
Error(code, name, count, last_error_time, error_message) ==
    [ code            |-> code,
      name            |-> name,
      count           |-> count,
      last_error_time |-> last_error_time,
      error_message   |-> error_message ]

\* Values of the eight counters.  RawHeavy carries an io score and a memory
\* score of three tenths of the modulus each, so that the total score of two
\* such rows overflows when merged while no other field does.
RawLight ==
    [ total_query_duration_ms     |-> 1,
      total_read_rows             |-> 1,
      total_read_bytes            |-> 3,
      total_memory_usage          |-> 2,
      total_user_time_us          |-> 1,
      total_system_time_us        |-> 0,
      total_network_receive_bytes |-> 1,
      total_network_send_bytes    |-> 2 ]

RawMedium ==
    [ total_query_duration_ms     |-> 0,
      total_read_rows             |-> 2,
      total_read_bytes            |-> 5,
      total_memory_usage          |-> 1,
      total_user_time_us          |-> 0,
      total_system_time_us        |-> 1,
      total_network_receive_bytes |-> 0,
      total_network_send_bytes    |-> 1 ]

RawHeavy ==
    [ total_query_duration_ms     |-> 2,
      total_read_rows             |-> 0,
      total_read_bytes            |-> 3 * (U64Modulus \div 10),
      total_memory_usage          |-> 4 * (U64Modulus \div 100),
      total_user_time_us          |-> 0,
      total_system_time_us        |-> 0,
      total_network_receive_bytes |-> 3,
      total_network_send_bytes    |-> 0 ]

\* QueryLog values received on the channel of analyzer::top_queries
\* (analyzer.rs:27-37) in the merge specification.  The receiver takes any
\* QueryLog: the lists of a value are in no particular order, and values of
\* one fingerprint may carry different query texts.  The query of
\* stream_logs_by_fingerprint (client.rs:202-210) selects the fingerprint, the
\* text and the six scores only; the other thirteen fields are fields of the
\* struct that analyzer.rs:112-141 merges, and are not columns of that query.
QueryRowA ==
    QueryLog(1, "SELECT 1", 10, 20, RawLight,
             <<"bob", "alice">>, <<"db1">>, <<"t2", "t1">>)

QueryRowB ==
    QueryLog(1, "SELECT 2", 5, 15, RawMedium,
             <<"carol", "bob">>, <<"db2", "db1">>, <<>>)

QueryRowC ==
    QueryLog(3, "SELECT 1", 12, 30, RawHeavy,
             <<"alice">>, <<"db1">>, <<"t1">>)

QueryRowD ==
    QueryLog(2, "SELECT x", 1, 2, RawMedium,
             <<"carol", "alice">>, <<>>, <<"t2">>)

QueryRows == {QueryRowA, QueryRowB, QueryRowC, QueryRowD}

ErrorRows ==
    { Error(1002, "NAME_A", 5, 10, "first message"),
      Error(1002, "NAME_B", 2, 30, "second message"),
      Error(1003, "NAME_C", 5, 20, "third message"),
      Error(1003, "NAME_C", U64Modulus \div 2, 5, "fourth message") }

TotalRows ==
    { QueryLogTotal(1, RawLight),
      QueryLogTotal(2, RawMedium),
      QueryLogTotal(U64Modulus \div 2, RawHeavy) }

\* The i-th value node n's cursor yields in the pipeline specification
\* (client.rs:155-157, cursor.next() of q.fetch::<R>()): a value of the row
\* type R of the channel, which execute_on_all_nodes sends on unchanged.
\* Every node groups by the key locally, so one node never yields the same
\* key twice: value i carries key i.  For the queries command R is QueryLog;
\* the pipeline does not look into a value, and what is modelled of it is its
\* type, not the columns of the node's reply.  The values keep every merged
\* sum of the pipeline specification below the modulus; overflow is examined
\* with the heavy rows of the merge specification.
NodeRaw(n, i) == IF (n + i) % 2 = 0 THEN RawLight ELSE RawMedium

NodeQueryRow(n, i) ==
    QueryLog(i,
             IF n % 2 = 1 THEN "SELECT 1" ELSE "SELECT 2",
             10 * i + n, 20 * i + n,
             NodeRaw(n, i),
             IF n % 2 = 1 THEN <<"bob", "alice">> ELSE <<"carol", "bob">>,
             IF n % 2 = 1 THEN <<"db1">> ELSE <<"db2", "db1">>,
             IF n % 2 = 1 THEN <<"t2", "t1">> ELSE <<>>)

NodeErrorRow(n, i) ==
    Error(1001 + i,
          IF n % 2 = 1 THEN "NAME_A" ELSE "NAME_B",
          4 + ((n + i) % 2),
          10 * n + i,
          IF n % 2 = 1 THEN "first message" ELSE "second message")

NodeTotalRow(n, i) == QueryLogTotal(n + i, NodeRaw(n, i))

RowOf(c, n, i) ==
    CASE c = "top_queries"   -> NodeQueryRow(n, i)
      [] c = "total_queries" -> NodeTotalRow(n, i)
      [] c = "top_errors"    -> NodeErrorRow(n, i)

(***************************************************************************)
(* Analyzer (analyzer.rs).  A HashMap is a function whose domain is the    *)
(* set of keys present.                                                    *)
(***************************************************************************)
EmptyMap == [k \in {} |-> 0]

\* An insertion that starts the table afresh.
MapInsert_afresh(m, k, v) == [x \in {k} |-> v]

MapInsert(m, k, v) == [x \in DOMAIN m \cup {k} |-> IF x = k THEN v ELSE m[x]]

\* analyzer.rs:86, QueryLogTotal::default()
ZeroTotal ==
    [ queries_count  |-> 0,
      io_impact      |-> 0,
      network_impact |-> 0,
      cpu_impact     |-> 0,
      memory_impact  |-> 0,
      time_impact    |-> 0,
      total_impact   |-> 0 ]

RawFields ==
    { "total_query_duration_ms", "total_read_rows", "total_read_bytes",
      "total_memory_usage", "total_user_time_us", "total_system_time_us",
      "total_network_send_bytes", "total_network_receive_bytes" }

ImpactFields ==
    { "io_impact", "cpu_impact", "memory_impact", "time_impact",
      "network_impact", "total_impact" }

ListFields == {"users", "databases", "tables"}

\* the fields merge_query_total adds (analyzer.rs:93-100)
TotalFields == ImpactFields \cup {"queries_count"}

\* A plausible slip: the accumulated network score is left out of the merge.
merge_query_modify_no_network(existing, log) ==
    [ existing EXCEPT
        !.total_query_duration_ms = AddU64(@, log.total_query_duration_ms),
        !.total_read_rows = AddU64(@, log.total_read_rows),
        !.total_read_bytes = AddU64(@, log.total_read_bytes),
        !.total_memory_usage = AddU64(@, log.total_memory_usage),
        !.total_user_time_us = AddU64(@, log.total_user_time_us),
        !.total_system_time_us = AddU64(@, log.total_system_time_us),
        !.total_network_send_bytes = AddU64(@, log.total_network_send_bytes),
        !.total_network_receive_bytes = AddU64(@, log.total_network_receive_bytes),
        !.max_event_time = MaxOf(@, log.max_event_time),
        !.min_event_time = MinOf(@, log.min_event_time),
        !.users = merge_string_vecs(@, log.users),
        !.databases = merge_string_vecs(@, log.databases),
        !.tables = merge_string_vecs(@, log.tables),
        !.io_impact = AddU64(@, log.io_impact),
        !.cpu_impact = AddU64(@, log.cpu_impact),
        !.memory_impact = AddU64(@, log.memory_impact),
        !.time_impact = AddU64(@, log.time_impact),
        !.total_impact = AddU64(@, log.total_impact) ]

\* analyzer.rs:106-132, the and_modify closure of merge_query
merge_query_modify(existing, log) ==
    [ existing EXCEPT
        !.total_query_duration_ms = AddU64(@, log.total_query_duration_ms),
        !.total_read_rows = AddU64(@, log.total_read_rows),
        !.total_read_bytes = AddU64(@, log.total_read_bytes),
        !.total_memory_usage = AddU64(@, log.total_memory_usage),
        !.total_user_time_us = AddU64(@, log.total_user_time_us),
        !.total_system_time_us = AddU64(@, log.total_system_time_us),
        !.total_network_send_bytes = AddU64(@, log.total_network_send_bytes),
        !.total_network_receive_bytes = AddU64(@, log.total_network_receive_bytes),
        !.max_event_time = MaxOf(@, log.max_event_time),
        !.min_event_time = MinOf(@, log.min_event_time),
        !.users = merge_string_vecs(@, log.users),
        !.databases = merge_string_vecs(@, log.databases),
        !.tables = merge_string_vecs(@, log.tables),
        !.io_impact = AddU64(@, log.io_impact),
        !.cpu_impact = AddU64(@, log.cpu_impact),
        !.memory_impact = AddU64(@, log.memory_impact),
        !.time_impact = AddU64(@, log.time_impact),
        !.network_impact = AddU64(@, log.network_impact),
        !.total_impact = AddU64(@, log.total_impact) ]

\* analyzer.rs:103-134: entry(hash).and_modify(..).or_insert(log)
merge_query(qs, log) ==
    IF log.normalized_query_hash \in DOMAIN qs
    THEN [qs EXCEPT ![log.normalized_query_hash] = merge_query_modify(@, log)]
    ELSE MapInsert(qs, log.normalized_query_hash, log)

\* one of the `+=` of merge_query overflows
merge_query_overflows(qs, log) ==
    /\ log.normalized_query_hash \in DOMAIN qs
    /\ \E f \in RawFields \cup ImpactFields :
          AddOverflows(qs[log.normalized_query_hash][f], log[f])

\* A merge that keeps the time of the row received last.
merge_error_last_received(es, err) ==
    IF err.code \in DOMAIN es
    THEN [es EXCEPT ![err.code] =
            [ @ EXCEPT
                !.count = AddU64(@, err.count),
                !.last_error_time = err.last_error_time ]]
    ELSE MapInsert(es, err.code, err)

\* analyzer.rs:136-146
merge_error(es, err) ==
    IF err.code \in DOMAIN es
    THEN [es EXCEPT ![err.code] =
            [ @ EXCEPT
                !.count = AddU64(@, err.count),
                !.last_error_time =
                    IF err.last_error_time > @ THEN err.last_error_time ELSE @ ]]
    ELSE MapInsert(es, err.code, err)

merge_error_overflows(es, err) ==
    /\ err.code \in DOMAIN es
    /\ AddOverflows(es[err.code].count, err.count)

\* analyzer.rs:92-101
merge_query_total(total, log) ==
    [ queries_count  |-> AddU64(total.queries_count, log.queries_count),
      io_impact      |-> AddU64(total.io_impact, log.io_impact),
      cpu_impact     |-> AddU64(total.cpu_impact, log.cpu_impact),
      memory_impact  |-> AddU64(total.memory_impact, log.memory_impact),
      time_impact    |-> AddU64(total.time_impact, log.time_impact),
      network_impact |-> AddU64(total.network_impact, log.network_impact),
      total_impact   |-> AddU64(total.total_impact, log.total_impact) ]

merge_query_total_overflows(total, log) ==
    \E f \in TotalFields : AddOverflows(total[f], log[f])

(***************************************************************************)
(* Ranking (analyzer.rs:166-191).  HashMap::values() iterates in an        *)
(* arbitrary order and sort_by_key is a stable sort, so the result is one  *)
(* of the stable sorts of the iteration orders.                            *)
(***************************************************************************)
SortBys ==
    { "TotalImpact", "IOImpact", "CPUImpact", "MemoryImpact", "TimeImpact",
      "NetworkImpact" }

\* analyzer.rs:170-177
Metric(q, sort_by) ==
    CASE sort_by = "TotalImpact"   -> q.total_impact
      [] sort_by = "IOImpact"      -> q.io_impact
      [] sort_by = "CPUImpact"     -> q.cpu_impact
      [] sort_by = "MemoryImpact"  -> q.memory_impact
      [] sort_by = "TimeImpact"    -> q.time_impact
      [] sort_by = "NetworkImpact" -> q.network_impact

\* the iteration orders of a map: the arrangements of its values
Orderings(m) ==
    { [i \in 1..Cardinality(DOMAIN m) |-> m[ks[i]]] :
        ks \in { f \in [1..Cardinality(DOMAIN m) -> DOMAIN m] :
                    \A i, j \in DOMAIN f : i # j => f[i] # f[j] } }

\* Vec::truncate
Truncate(s, limit) == SubSeq(s, 1, MinOf(limit, Len(s)))

\* A sort key without Reverse: ascending by the metric.
QueryKeyLess_ascending(a, b, sort_by) == Metric(a, sort_by) < Metric(b, sort_by)

\* Reverse(metric): a precedes b when its metric is greater
QueryKeyLess(a, b, sort_by) == Metric(a, sort_by) > Metric(b, sort_by)

\* slice::sort_by_key is a stable sort: an element goes behind the elements
\* that precede it by key and behind the earlier elements of equal key.
SortQueries(s, sort_by) ==
    LET pos(i) ==
            1 + Cardinality({j \in 1..Len(s) : QueryKeyLess(s[j], s[i], sort_by)})
              + Cardinality({j \in 1..(i - 1) :
                                Metric(s[j], sort_by) = Metric(s[i], sort_by)})
    IN  [ k \in 1..Len(s) |-> s[CHOOSE i \in 1..Len(s) : pos(i) = k] ]

\* analyzer.rs:166-182
Analyzer_top_queries(qs, limit, sort_by) ==
    { Truncate(SortQueries(vals, sort_by), limit) : vals \in Orderings(qs) }

\* A tie-break the wrong way round: the greater code first.
ErrorKeyLess_code_descending(a, b) ==
    \/ a.count > b.count
    \/ a.count = b.count /\ a.code > b.code

\* (Reverse(count), code)
ErrorKeyLess(a, b) ==
    \/ a.count > b.count
    \/ a.count = b.count /\ a.code < b.code

ErrorKeyEq(a, b) == a.count = b.count /\ a.code = b.code

SortErrors(s) ==
    LET pos(i) ==
            1 + Cardinality({j \in 1..Len(s) : ErrorKeyLess(s[j], s[i])})
              + Cardinality({j \in 1..(i - 1) : ErrorKeyEq(s[j], s[i])})
    IN  [ k \in 1..Len(s) |-> s[CHOOSE i \in 1..Len(s) : pos(i) = k] ]

\* analyzer.rs:184-191
Analyzer_top_errors(es, limit) ==
    { Truncate(SortErrors(vals), limit) : vals \in Orderings(es) }

(***************************************************************************)
(* The pipeline: one invocation of a command handler.                      *)
(***************************************************************************)
VARIABLES
    cmd,              \* the handler: "top_queries", "total_queries", "top_errors"
    req,              \* the request: limit and sort_by
    capacity,         \* the argument of mpsc::channel
    overflow_checks,  \* whether the build panics on integer overflow
    nodes,            \* number of configured nodes, Client.nodes.len()
    script,           \* per node: how many rows its cursor yields, and whether
                      \* the execution then fails instead of completing
    hpc,              \* position of the handler
    stream_result,    \* state and result of the stream task
    first_failure,    \* the node whose execution failed first, or 0
    npc,              \* per node: position of its execution
    qpc,              \* the executions of the nodes that match no row: how
                      \* many have returned Ok(()), and where the others are
    fetched,          \* per node: rows read from the cursor so far
    pending,          \* per node: the row held by a send in progress
    chan,             \* rows in the channel, oldest first
    apc,              \* state of the analyzer
    total_queries,    \* Analyzer.total_queries
    queries,          \* Analyzer.queries
    errors,           \* Analyzer.errors
    received,         \* per source: the rows the analyzer has merged, in order
    analyzer_result,  \* what the analyzer task returned, once it has
    printed,          \* what the handler handed to the output renderer
    filter,           \* the filter a stream_* method is called with
    now,              \* what OffsetDateTime::now_utc() returns to it
    built,            \* the query it builds: text and parameters
    args,             \* the filter arguments of the command line
    node_query,       \* per node: the query bound for it
    ctx,              \* the Context: its config and override_name
    file,             \* the config file at Context.path
    keyring,          \* the passwords the system keyring holds, by profile
    ctx_result        \* what the last operation on the Context returned

vars ==
    << cmd, req, capacity, overflow_checks, nodes, script, hpc, stream_result,
       first_failure, npc, qpc, fetched, pending, chan, apc, total_queries,
       queries, errors, received, analyzer_result, printed, filter, now, built, args,
       node_query, ctx, file, keyring, ctx_result >>

\* the variables of the profile store, which the pipeline and the query
\* builder leave alone
context_vars == << ctx, file, keyring, ctx_result >>

\* the query builder's variables, which the pipeline leaves alone
filter_vars == << filter, now, built, args, node_query, context_vars >>

\* no stream_* method has been called: no filter, no query built
NoFilter == [kind |-> "none"]

NotBuilt == [status |-> "none"]

\* the invocation did not come through the command line
NoArgs == [kind |-> "none"]

\* no Context has been constructed, no config file written
NoContext == [status |-> "none"]

NoFile == [exists |-> FALSE]

NoResult == [op |-> "none"]

InitNoContext ==
    /\ ctx = NoContext
    /\ file = NoFile
    /\ keyring = [n \in {} |-> ""]
    /\ ctx_result = NoResult

InitNoQuery ==
    /\ InitNoContext
    /\ filter = NoFilter
    /\ now = 0
    /\ built = NotBuilt
    /\ args = NoArgs
    /\ node_query = <<>>

Commands == {"top_queries", "total_queries", "top_errors"}

\* cli.rs:67, 92: default_value_t = 5
DEFAULT_LIMIT == 5

Limits == {1, 2, DEFAULT_LIMIT}

\* the requests of the merge specification: every metric
Requests(c) ==
    CASE c = "top_queries"   -> [limit : Limits, sort_by : SortBys]
      [] c = "total_queries" -> {[limit |-> 0, sort_by |-> "TotalImpact"]}
      [] c = "top_errors"    -> [limit : Limits, sort_by : {"TotalImpact"}]

\* the requests of the pipeline specification: the default metric and one
\* other, the limit 1 and the default limit
PipelineRequests(c) ==
    {r \in Requests(c) : r.sort_by \in {"TotalImpact", "IOImpact"} /\ r.limit # 2}

\* cli.rs:60, 67: the request when no option is given
DefaultRequest(c) ==
    [limit |-> IF c = "total_queries" THEN 0 ELSE DEFAULT_LIMIT, sort_by |-> "TotalImpact"]

\* command.rs fixes the capacity at 128; the smaller capacities make a full
\* channel arise with the few rows of the model.
Capacities == (1..MaxCapacity) \cup {CHANNEL_CAPACITY}

AllNodes == 1..nodes

\* An aggregate without GROUP BY yields one row.
MaxRowsOf(c) == IF c = "total_queries" THEN 1 ELSE MaxRows

Scripts(c) == [len : 0..MaxRowsOf(c), fails : BOOLEAN]

\* the number of rows the first k nodes yield
RECURSIVE ScriptRows(_, _)
ScriptRows(sc, k) == IF k = 0 THEN 0 ELSE sc[k].len + ScriptRows(sc, k - 1)

\* The node counts of the model: the clusters try_join_all polls itself, and
\* two clusters of more than SMALL nodes, in which one node or two yield
\* rows or fail.
ClusterSizes == (0..MaxNodes) \cup {SMALL + 1, SMALL + 2}

\* In a cluster of more than SMALL nodes the SMALL nodes before the last one
\* match no row: the cursor of each yields None, whenever its reply arrives,
\* and the execution returns Ok(()).  These executions differ in nothing
\* but the index, and no other node lies between them, so the model counts
\* those that have ended instead of naming them.  The other nodes are the
\* first ones and the last one.
QuietNodesOf(k) == IF k <= SMALL THEN {} ELSE (k - SMALL)..(k - 1)

QuietNodes == QuietNodesOf(nodes)

\* the nodes whose executions the model follows one by one
NodesOf(k) == (1..k) \ QuietNodesOf(k)

Nodes == NodesOf(nodes)

\* what the nodes of one invocation do
Clusters(c, k) ==
    IF k <= SMALL
    THEN {sc \in [1..k -> Scripts(c)] : ScriptRows(sc, k) <= MaxRows}
    ELSE {[n \in NodesOf(k) |-> IF n = k THEN sc[k - SMALL] ELSE sc[n]] :
          sc \in {x \in [1..(k - SMALL) -> Scripts(c)] :
                     ScriptRows(x, k - SMALL) <= MaxRows}}

\* no execution of a node that matches no row has been polled
NoQuiet == [done |-> 0, rest |-> "unpolled"]

\* The position of every execution, by node.  Of the executions of the nodes
\* that match no row, qpc.done have returned; which of them makes no
\* difference, and they are listed first.
Positions ==
    [n \in AllNodes |->
        IF n \in Nodes THEN npc[n]
        ELSE IF n - (nodes - SMALL) < qpc.done THEN "done" ELSE qpc.rest]

Unpolled == [status |-> "unpolled", kind |-> "", cause |-> ""]

Pending == [status |-> "pending", kind |-> "", cause |-> ""]

Ok == [status |-> "ok", kind |-> "", cause |-> ""]

\* The clickhouse error the failing execution of node n meets at client.rs:
\* 154-157: a connection failure, an error response of the server or a
\* malformed response, according to the node.
NodeFailure(n) ==
    CASE n % 3 = 1 -> "Network"
      [] n % 3 = 2 -> "BadResponse"
      [] OTHER     -> "Decompression"

\* A query error that carries the identity of the node beside the cause.
ClientError_Query_with_node(node, source) ==
    [status |-> "err", kind |-> "Query", cause |-> source, node |-> node]

\* client.rs:70-71, ClientError::Query(#[from] ChError): `?` wraps the
\* clickhouse error met on `node`; the variant has that one field, so the
\* node is not part of the value.
ClientError_Query(node, source) ==
    [status |-> "err", kind |-> "Query", cause |-> source]

\* the error node n's failing execution returns
QueryError(n) == ClientError_Query(n, NodeFailure(n))

\* client.rs:79-80, 158: ClientError::Send, a variant without fields, raised
\* in node n's execution
SendError(n) == [status |-> "err", kind |-> "Send", cause |-> ""]

Msg(n, i) == [src |-> n, seq |-> i, row |-> RowOf(cmd, n, i)]

Running(pcs) == {n \in DOMAIN pcs : pcs[n] \in {"next", "send"}}

\* A receive that stops waiting for the senders once the stream task runs.
LiveSenders_ignored == IF stream_result.status = "unpolled" THEN 1 ELSE 0

\* A channel that closes as soon as one node execution has completed.
LiveSenders_until_first_done ==
    IF \E n \in AllNodes : Positions[n] = "done" THEN 0
    ELSE (IF stream_result.status \in {"unpolled", "pending"} THEN 1 ELSE 0)
         + Cardinality(Running(Positions))

\* A sender handle that outlives the stream task.
LiveSenders_leaked == 1 + Cardinality(Running(Positions))

\* Sender handles alive: the one the stream task owns (client.rs:141) and
\* the clone each node execution owns (client.rs:150).
LiveSenders ==
    (IF stream_result.status \in {"unpolled", "pending"} THEN 1 ELSE 0)
    + Cardinality(Running(Positions))

\* the least number of a non-empty set of nodes
FirstOf(S) == CHOOSE m \in S : \A k \in S : m <= k

\* A join that swallows failures: success once every execution has ended.
try_join_all_swallow(pcs) ==
    IF Running(pcs) # {} THEN Pending ELSE Ok

\* client.rs:165, futures::future::try_join_all over one future per node
\* (client.rs:148-163), polled with the executions at positions pcs.
\* Success needs every execution to have succeeded.  Up to SMALL futures are
\* polled in index order and the first Err met ends the poll and is
\* returned, whatever the other executions do.  More than SMALL futures go
\* into a FuturesOrdered whose outputs try_collect takes in index order: the
\* Err of an execution is queued until every execution of a lower index has
\* produced its output, and the first Err in index order is returned; until
\* then the join is pending and the other executions go on.
try_join_all(pcs) ==
    LET Failed == {m \in DOMAIN pcs : pcs[m] \in {"failed", "send_failed"}}
        Unfinished == {m \in DOMAIN pcs : pcs[m] # "done"}
        Err(m) == IF pcs[m] = "failed" THEN QueryError(m) ELSE SendError(m)
    IN  IF Unfinished = {} THEN Ok
        ELSE IF Cardinality(DOMAIN pcs) <= SMALL
        THEN IF Failed # {} THEN Err(FirstOf(Failed)) ELSE Pending
        ELSE IF FirstOf(Unfinished) \in Failed
             THEN Err(FirstOf(Unfinished)) ELSE Pending

\* Peers that survive the resolution of the join, as spawned tasks would.
DropFutures_detached(pcs) == pcs

\* The resolved join drops the futures it still holds (client.rs:165-166):
\* an execution that has not ended is cancelled where it is suspended.
DropFutures(pcs) ==
    [m \in DOMAIN pcs |-> IF pcs[m] \in {"next", "send"} THEN "cancelled" ELSE pcs[m]]

\* A send that does not wait for room.
HasRoom_unbounded(ch, cap) == TRUE

\* tokio mpsc Sender::send acquires one of `capacity` permits
HasRoom(ch, cap) == Len(ch) < cap

\* A channel that hands out the newest row first.
Enqueue_front(ch, m) == <<m>> \o ch

\* A send that enqueues the row twice.
Enqueue_twice(ch, m) == Append(Append(ch, m), m)

\* client.rs:158, the row enters the channel behind the rows already there
Enqueue(ch, m) == Append(ch, m)

\* Printing before the stream result is examined.
HandlerOutput_always(result, ranking) == ranking

\* command.rs:42-44, 79-81, 100-102: `?` returns before the print on failure
HandlerOutput(result, ranking) == IF result.status = "ok" THEN ranking ELSE <<>>

NoRows == [n \in {} |-> <<>>]

InitCommon ==
    /\ first_failure = 0
    /\ total_queries = ZeroTotal
    /\ queries = EmptyMap
    /\ errors = EmptyMap
    /\ apc = "collecting"
    /\ analyzer_result = <<>>
    /\ printed = <<>>

\* command.rs:35-38: the channel is created, both tasks are built, neither
\* has been polled.  The rows of the pipeline keep every sum in range, so the
\* build mode makes no difference here.  The clusters of more than SMALL
\* nodes run top_errors with the channel of command.rs and the default
\* request.
Init ==
    /\ cmd \in Commands
    /\ req \in PipelineRequests(cmd)
    /\ capacity \in Capacities
    /\ overflow_checks = FALSE
    /\ nodes \in ClusterSizes
    /\ nodes > SMALL =>
          /\ cmd = "top_errors"
          /\ capacity = CHANNEL_CAPACITY
          /\ req = DefaultRequest(cmd)
    /\ script \in Clusters(cmd, nodes)
    /\ hpc = "join"
    /\ stream_result = Unpolled
    /\ npc = [n \in Nodes |-> "unpolled"]
    /\ qpc = NoQuiet
    /\ fetched = [n \in Nodes |-> 0]
    /\ pending = [n \in Nodes |-> <<>>]
    /\ chan = <<>>
    /\ received = [n \in Nodes |-> <<>>]
    /\ InitCommon
    /\ InitNoQuery

\* the executions of the nodes that match no row, at the positions pcs
QuietAt(pcs) ==
    [done |-> Cardinality({n \in QuietNodes : pcs[n] = "done"}),
     rest |-> IF \E n \in QuietNodes : pcs[n] # "done"
              THEN pcs[CHOOSE n \in QuietNodes : pcs[n] # "done"]
              ELSE qpc.rest]

\* The join has been polled after an execution ended: positions pcs of all
\* the executions.
Resolve(pcs) ==
    \E p \in {pcs} :
    \E r \in {try_join_all(p)} :
    \E after \in {IF r.status = "pending" THEN p ELSE DropFutures(p)} :
        /\ stream_result' = r
        /\ npc' = [m \in Nodes |-> after[m]]
        /\ qpc' = QuietAt(after)
        /\ pending' = [m \in Nodes |-> IF after[m] = "send" THEN pending[m] ELSE <<>>]

\* client.rs:148-165, first poll of the stream task: one future per node,
\* each with its clone of the sender; an empty join succeeds at once.
StreamStart ==
    /\ hpc = "join"
    /\ stream_result.status = "unpolled"
    /\ stream_result' = IF nodes = 0 THEN Ok ELSE Pending
    /\ npc' = [n \in Nodes |-> "next"]
    /\ qpc' = [done |-> 0, rest |-> "next"]
    /\ UNCHANGED << filter_vars,
                    cmd, req, capacity, overflow_checks, nodes, script, hpc,
                    first_failure, fetched, pending, chan, apc, total_queries,
                    queries, errors, received, analyzer_result, printed >>

\* client.rs:157, cursor.next() yields Some(row)
NodeRow(n) ==
    /\ npc[n] = "next"
    /\ fetched[n] < script[n].len
    /\ fetched' = [fetched EXCEPT ![n] = @ + 1]
    /\ pending' = [pending EXCEPT ![n] = <<Msg(n, fetched[n] + 1)>>]
    /\ npc' = [npc EXCEPT ![n] = "send"]
    /\ UNCHANGED << filter_vars, qpc,
                    cmd, req, capacity, overflow_checks, nodes, script, hpc,
                    stream_result, first_failure, chan, apc, total_queries,
                    queries, errors, received, analyzer_result, printed >>

\* client.rs:158, sender.send(row).await: fails when the receiver is gone,
\* waits while the channel is full, otherwise enqueues the row.
NodeSend(n) ==
    /\ npc[n] = "send"
    /\ IF apc # "collecting"
       THEN /\ Resolve([Positions EXCEPT ![n] = "send_failed"])
            /\ first_failure' = IF first_failure = 0 THEN n ELSE first_failure
            /\ chan' = chan
       ELSE /\ HasRoom(chan, capacity)
            /\ chan' = Enqueue(chan, pending[n][1])
            /\ npc' = [npc EXCEPT ![n] = "next"]
            /\ pending' = [pending EXCEPT ![n] = <<>>]
            /\ UNCHANGED << stream_result, first_failure, qpc >>
    /\ UNCHANGED << filter_vars,
                    cmd, req, capacity, overflow_checks, nodes, script, hpc,
                    fetched, apc, total_queries, queries, errors, received,
                    analyzer_result, printed >>

\* client.rs:157-161, cursor.next() yields None: the execution returns Ok(())
NodeComplete(n) ==
    /\ npc[n] = "next"
    /\ fetched[n] = script[n].len
    /\ ~script[n].fails
    /\ Resolve([Positions EXCEPT ![n] = "done"])
    /\ UNCHANGED << filter_vars,
                    cmd, req, capacity, overflow_checks, nodes, script, hpc,
                    first_failure, fetched, chan, apc, total_queries, queries,
                    errors, received, analyzer_result, printed >>

\* client.rs:157-161 on one of the nodes that match no row: cursor.next()
\* yields None and the execution returns Ok(())
QuietComplete ==
    /\ qpc.rest = "next"
    /\ qpc.done < Cardinality(QuietNodes)
    /\ Resolve([Positions EXCEPT ![nodes - SMALL + qpc.done] = "done"])
    /\ UNCHANGED << filter_vars,
                    cmd, req, capacity, overflow_checks, nodes, script, hpc,
                    first_failure, fetched, chan, apc, total_queries, queries,
                    errors, received, analyzer_result, printed >>

\* client.rs:154-157, build_query, fetch or cursor.next() returns an error:
\* `?` ends the execution with it
NodeFail(n) ==
    /\ npc[n] = "next"
    /\ fetched[n] = script[n].len
    /\ script[n].fails
    /\ Resolve([Positions EXCEPT ![n] = "failed"])
    /\ first_failure' = IF first_failure = 0 THEN n ELSE first_failure
    /\ UNCHANGED << filter_vars,
                    cmd, req, capacity, overflow_checks, nodes, script, hpc,
                    fetched, chan, apc, total_queries, queries, errors,
                    received, analyzer_result, printed >>

\* one of the additions of the merge of row overflows
MergeOverflows(row) ==
    CASE cmd = "top_queries"   -> merge_query_overflows(queries, row)
      [] cmd = "total_queries" -> merge_query_total_overflows(total_queries, row)
      [] cmd = "top_errors"    -> merge_error_overflows(errors, row)

\* analyzer.rs:148-164, collect_logs / collect_logs_total / collect_errors:
\* rx.recv() yields a row, which is merged.  With overflow checks an
\* overflowing addition panics; the panic unwinds through tokio::join! and
\* the handler, dropping both tasks.
AnalyzerRecv ==
    /\ apc = "collecting"
    /\ chan # <<>>
    /\ LET m == Head(chan) IN
       IF overflow_checks /\ MergeOverflows(m.row)
       THEN /\ apc' = "panicked"
            /\ hpc' = IF hpc = "join" THEN "panicked" ELSE hpc
            /\ npc' = DropFutures(npc)
            /\ qpc' = QuietAt(DropFutures(Positions))
            /\ pending' = [n \in Nodes |-> <<>>]
            /\ chan' = <<>>
            /\ UNCHANGED << total_queries, queries, errors, received >>
       ELSE /\ chan' = Tail(chan)
            /\ received' = [received EXCEPT ![m.src] = Append(@, m)]
            /\ total_queries' =
                 IF cmd = "total_queries"
                 THEN merge_query_total(total_queries, m.row) ELSE total_queries
            /\ queries' =
                 IF cmd = "top_queries" THEN merge_query(queries, m.row) ELSE queries
            /\ errors' =
                 IF cmd = "top_errors" THEN merge_error(errors, m.row) ELSE errors
            /\ UNCHANGED << apc, hpc, npc, qpc, pending >>
    /\ UNCHANGED << filter_vars,
                    cmd, req, capacity, overflow_checks, nodes, script,
                    stream_result, first_failure, fetched, analyzer_result,
                    printed >>

\* what the analyzer task returns (analyzer.rs:36, 57, 79)
AnalyzerResults ==
    CASE cmd = "top_queries"   -> Analyzer_top_queries(queries, req.limit, req.sort_by)
      [] cmd = "total_queries" -> {total_queries}
      [] cmd = "top_errors"    -> Analyzer_top_errors(errors, req.limit)

\* analyzer.rs:149, rx.recv() yields None: the channel is empty and every
\* sender has been dropped.  The loop ends and the result is computed.
AnalyzerFinish ==
    /\ apc = "collecting"
    /\ chan = <<>>
    /\ LiveSenders = 0
    /\ apc' = "finalized"
    /\ \E r \in AnalyzerResults : analyzer_result' = <<r>>
    /\ UNCHANGED << filter_vars,
                    cmd, req, capacity, overflow_checks, nodes, script, hpc,
                    stream_result, first_failure, npc, qpc, fetched, pending, chan,
                    total_queries, queries, errors, received, printed >>

\* command.rs:40-46: tokio::join! returns once both tasks have completed;
\* a stream error is returned, otherwise the result is printed.
HandlerFinish ==
    /\ hpc = "join"
    /\ stream_result.status \in {"ok", "err"}
    /\ apc = "finalized"
    /\ printed' = HandlerOutput(stream_result, analyzer_result)
    /\ hpc' = IF stream_result.status = "ok" THEN "done" ELSE "failed"
    /\ UNCHANGED << filter_vars,
                    cmd, req, capacity, overflow_checks, nodes, script,
                    stream_result, first_failure, npc, qpc, fetched, pending, chan,
                    apc, total_queries, queries, errors, received,
                    analyzer_result >>

Next ==
    \/ StreamStart
    \/ \E n \in Nodes : NodeRow(n)
    \/ \E n \in Nodes : NodeSend(n)
    \/ \E n \in Nodes : NodeComplete(n)
    \/ QuietComplete
    \/ \E n \in Nodes : NodeFail(n)
    \/ AnalyzerRecv
    \/ AnalyzerFinish
    \/ HandlerFinish

Spec == Init /\ [][Next]_vars

(***************************************************************************)
(* The fair pipeline: the runtime polls the handler's future whenever one  *)
(* of the two joined tasks is woken, and every node answers in finite      *)
(* time, so the invocation does not stop while a step is possible.         *)
(***************************************************************************)
InitFair ==
    /\ Init
    /\ req = DefaultRequest(cmd)

Fairness == WF_vars(Next)

FairSpec == InitFair /\ [][Next]_vars /\ Fairness

(***************************************************************************)
(* The merge specification: the analyzer alone, run on a channel that      *)
(* holds the rows and whose senders have been dropped, as                  *)
(* analyzer::top_queries / total_queries / top_errors are called on a      *)
(* receiver.                                                               *)
(***************************************************************************)
RowsOf(c) ==
    CASE c = "top_queries"   -> QueryRows
      [] c = "total_queries" -> TotalRows
      [] c = "top_errors"    -> ErrorRows

Feeds(c) ==
    UNION { [1..k -> RowsOf(c)] : k \in 0..MaxFeed }

NoStream == [status |-> "none", kind |-> "", cause |-> ""]

InitMerge ==
    /\ cmd \in Commands
    /\ req \in Requests(cmd)
    /\ capacity = CHANNEL_CAPACITY
    /\ overflow_checks \in BOOLEAN
    /\ nodes = 0
    /\ script = NoRows
    /\ hpc = "none"
    /\ stream_result = NoStream
    /\ npc = NoRows
    /\ qpc = NoQuiet
    /\ fetched = NoRows
    /\ pending = NoRows
    /\ \E feed \in Feeds(cmd) :
          chan = [i \in 1..Len(feed) |-> [src |-> 0, seq |-> i, row |-> feed[i]]]
    /\ received = [n \in {0} |-> <<>>]
    /\ InitCommon
    /\ InitNoQuery

NextMerge ==
    \/ AnalyzerRecv
    \/ AnalyzerFinish

SpecMerge == InitMerge /\ [][NextMerge]_vars

(***************************************************************************)
(* The query builder: client/filter.rs and the stream_* methods of         *)
(* client.rs.  A text is the sequence of the pieces it is concatenated     *)
(* from; the piece "?" is one placeholder.  Durations count milliseconds;   *)
(* an OffsetDateTime is its instant, in milliseconds since                 *)
(* 2024-05-01T00:00:00Z, and its UTC offset in milliseconds.  The range of  *)
(* OffsetDateTime is cut down to start at that origin, as u64 is cut down  *)
(* to U64Bits.                                                             *)
(***************************************************************************)
None == [some |-> FALSE]

Some(v) == [some |-> TRUE, value |-> v]

\* filter.rs:22-27, enum QueryParam
QueryParam_DateTime(t) == [kind |-> "DateTime", value |-> t]

QueryParam_UInt64(v) == [kind |-> "UInt64", value |-> v]

QueryParam_Int32(v) == [kind |-> "Int32", value |-> v]

QueryParam_String(v) == [kind |-> "String", value |-> v]

\* the lists of at most MaxList elements of S
Lists(S) == UNION { [1..k -> S] : k \in 0..MaxList }

\* milliseconds of d days, and of h hours m minutes s seconds
Days(d) == d * 24 * 3600 * 1000

HMS(h, m, s) == ((h * 60 + m) * 60 + s) * 1000

OffsetDateTime(utc, offset) == [utc |-> utc, offset |-> offset]

\* the date and time of day an OffsetDateTime shows: those of its own offset
LocalMillis(t) == t.utc + t.offset

\* the local date-times OffsetDateTime represents start at the origin
InDateTimeRange(t) == LocalMillis(t) >= 0

\* filter.rs:56, OffsetDateTime - Duration keeps the offset
OffsetDateTime_sub(t, d) == OffsetDateTime(t.utc - d, t.offset)

\* What a --from or --to argument may read: an RFC 3339 timestamp, a
\* YYYY-MM-DD date, or something else.
Rfc3339Arg(day, time, offset) ==
    [form |-> "rfc3339", day |-> day, time |-> time, offset |-> offset]

DateArg(day) == [form |-> "date", day |-> day]

OtherArg == [form |-> "other"]

ParseErr == [ok |-> FALSE]

ParseOk(v) == [ok |-> TRUE, value |-> v]

\* cli.rs:271-283, parse_datetime: an RFC 3339 timestamp keeps the offset it
\* is written with; a date is midnight UTC
parse_datetime(s) ==
    CASE s.form = "rfc3339" ->
            ParseOk(OffsetDateTime(Days(s.day) + s.time - s.offset, s.offset))
      [] s.form = "date" -> ParseOk(OffsetDateTime(Days(s.day), 0))
      [] OTHER -> ParseErr

\* the --from and --to arguments tried: 2024-05-01T10:30:00+03:00,
\* 2024-05-02, "yesterday"; 2024-05-02T12:00:00Z
FromArgs == { Rfc3339Arg(0, HMS(10, 30, 0), HMS(3, 0, 0)), DateArg(1), OtherArg }

ToArgs == { Rfc3339Arg(1, HMS(12, 0, 0), 0) }

Parsed(S) == { parse_datetime(s).value : s \in {x \in S : parse_datetime(x).ok} }

\* the --last arguments tried: 1h, and 10days, which reaches before the origin
LastArgs == { HMS(1, 0, 0), Days(10) }

RECURSIVE TotalLen(_)
TotalLen(lists) ==
    IF Len(lists) = 0 THEN 0 ELSE Len(lists[1]) + TotalLen(Tail(lists))

\* filter.rs:7-19, the filters stream_logs_* may be called with
QueryLogFilters ==
    { f \in [ kind : {"QueryLogFilter"},
              from : {None} \cup { Some(t) : t \in Parsed(FromArgs) },
              to : {None} \cup { Some(t) : t \in Parsed(ToArgs) },
              last : {None} \cup { Some(d) : d \in LastArgs },
              users : Lists({"alice", "bob"}),
              databases : Lists({"db1", "db2"}),
              tables : Lists({"t1", "t2"}),
              min_query_duration : {None, Some(300)},
              min_read_rows : {None, Some(100)},
              min_read_data : {None, Some(200)} ] :
        TotalLen(<<f.users, f.databases, f.tables>>) <= MaxList }

\* filter.rs:129-133, the filters stream_error_by_code may be called with
ErrorFilters ==
    [ kind : {"ErrorFilter"},
      last : {None} \cup { Some(d) : d \in LastArgs },
      min_count : {None, Some(5)},
      code : Lists({1002, 1003}) ]

\* the readings of the clock: 2024-05-02T06:00:00Z and the second after
Clock ==
    { OffsetDateTime(Days(1) + HMS(6, 0, 0), 0),
      OffsetDateTime(Days(1) + HMS(6, 0, 1), 0) }

\* One placeholder however long the list.
placeholders_single(n) == <<"?">>

\* filter.rs:66, vec!["?"; n].join(", ") for n > 0
placeholders(n) ==
    [i \in 1..(2 * n - 1) |-> IF i % 2 = 1 THEN "?" ELSE ", "]

\* filter.rs:105, clauses.join(" AND ")
RECURSIVE join_clauses(_)
join_clauses(clauses) ==
    IF Len(clauses) = 0 THEN <<>>
    ELSE IF Len(clauses) = 1 THEN clauses[1]
    ELSE clauses[1] \o <<" AND ">> \o join_clauses(Tail(clauses))

\* the parameters pushed, push after push
RECURSIVE concat(_)
concat(vecs) ==
    IF Len(vecs) = 0 THEN <<>> ELSE vecs[1] \o concat(Tail(vecs))

\* A push that hands the parameters of a clause over last to first.
Push_reversed(clause, params) ==
    <<[clause |-> clause,
       params |-> [i \in DOMAIN params |-> params[Len(params) + 1 - i]]]>>

\* one push onto `clauses` with the pushes onto `params` that go with it
Push(clause, params) == <<[clause |-> clause, params |-> params]>>

\* filter.rs:102-108, the fragment and the parameters of the pushes made
Fragment(pushes) ==
    [ text |-> IF Len(pushes) = 0 THEN <<>>
               ELSE <<"AND ">> \o join_clauses([i \in DOMAIN pushes |-> pushes[i].clause]),
      params |-> concat([i \in DOMAIN pushes |-> pushes[i].params]) ]

\* filter.rs:46-109, QueryLogFilter::build_where with the clock reading
\* `clock`; the subtraction of line 56 panics when it leaves the range
QueryLogFilter_build_where_pushes(f, clock) ==
       (IF f.from.some
        THEN Push(<<"event_time >= toDateTime(", "?", ", 'UTC')">>,
                  <<QueryParam_DateTime(f.from.value)>>)
        ELSE <<>>)
    \o (IF f.last.some
        THEN Push(<<"event_time >= toDateTime(", "?", ", 'UTC')">>,
                  <<QueryParam_DateTime(OffsetDateTime_sub(clock, f.last.value))>>)
        ELSE <<>>)
    \o (IF f.to.some
        THEN Push(<<"event_time < toDateTime(", "?", ", 'UTC')">>,
                  <<QueryParam_DateTime(f.to.value)>>)
        ELSE <<>>)
    \o (IF Len(f.users) # 0
        THEN Push(<<"user IN (">> \o placeholders(Len(f.users)) \o <<")">>,
                  [i \in DOMAIN f.users |-> QueryParam_String(f.users[i])])
        ELSE <<>>)
    \o (IF f.min_read_rows.some
        THEN Push(<<"read_rows >= ", "?">>,
                  <<QueryParam_UInt64(f.min_read_rows.value)>>)
        ELSE <<>>)
    \o (IF f.min_read_data.some
        THEN Push(<<"read_bytes >= ", "?">>,
                  <<QueryParam_UInt64(f.min_read_data.value)>>)
        ELSE <<>>)
    \o (IF f.min_query_duration.some
        THEN Push(<<"query_duration_ms >= ", "?">>,
                  <<QueryParam_UInt64(f.min_query_duration.value % U64Modulus)>>)
        ELSE <<>>)
    \o (IF Len(f.tables) # 0
        THEN Push(<<"hasAny(query_log.tables, [">>
                      \o placeholders(Len(f.tables)) \o <<"])">>,
                  [i \in DOMAIN f.tables |-> QueryParam_String(f.tables[i])])
        ELSE <<>>)
    \o (IF Len(f.databases) # 0
        THEN Push(<<"hasAny(query_log.databases, [">>
                      \o placeholders(Len(f.databases)) \o <<"])">>,
                  [i \in DOMAIN f.databases |-> QueryParam_String(f.databases[i])])
        ELSE <<>>)

QueryLogFilter_build_where(f, clock) ==
    Fragment(QueryLogFilter_build_where_pushes(f, clock))

\* filter.rs:147-166, ErrorFilter::build_where
ErrorFilter_build_where(f) ==
    Fragment(IF Len(f.code) # 0
             THEN Push(<<"code IN (">> \o placeholders(Len(f.code)) \o <<")">>,
                       [i \in DOMAIN f.code |-> QueryParam_Int32(f.code[i])])
             ELSE <<>>)

\* filter.rs:169-192, ErrorFilter::build_having with the clock reading `clock`
ErrorFilter_build_having(f, clock) ==
    Fragment(   (IF f.min_count.some
                 THEN Push(<<"count >= ", "?">>,
                           <<QueryParam_UInt64(f.min_count.value)>>)
                 ELSE <<>>)
             \o (IF f.last.some
                 THEN Push(<<"last_error_time >= toDateTime(", "?", ", 'UTC')">>,
                           <<QueryParam_DateTime(OffsetDateTime_sub(clock, f.last.value))>>)
                 ELSE <<>>))

\* filter.rs:56, 180: `now - last` panics when the result is out of range
Panics(f, clock) == f.last.some /\ ~InDateTimeRange(OffsetDateTime_sub(clock, f.last.value))

Panicked == [status |-> "panic"]

\* client.rs:190-213 and 309-332: the text with the fragment in its place
\* and the parameters handed to build_query_with_params
QueryLogQuery(select, group_by, f, clock) ==
    LET where == QueryLogFilter_build_where(f, clock)
    IN  [ status |-> "ok",
          clock |-> clock,
          fragments |-> <<where>>,
          sql |-> <<select, "WHERE type != 'QueryStart' AND query_kind = 'Select' ">>
                  \o where.text \o group_by,
          params |-> where.params ]

\* client.rs:361-379, stream_error_by_code: both fragments in the text, the
\* parameters of WHERE before those of HAVING
ErrorQuery(f, clock) ==
    LET where == ErrorFilter_build_where(f)
        having == ErrorFilter_build_having(f, clock)
    IN  [ status |-> "ok",
          clock |-> clock,
          fragments |-> <<where, having>>,
          sql |-> <<"SELECT code, ... FROM system.errors ", "WHERE 1 = 1 ">>
                  \o where.text
                  \o <<" GROUP BY code ", "HAVING 1 = 1 ">>
                  \o having.text,
          params |-> where.params \o having.params ]

\* the decimal digits
Digit(d) == <<"0", "1", "2", "3", "4", "5", "6", "7", "8", "9">>[d + 1]

\* format!("{}", v) of an unsigned integer
RECURSIVE Decimal(_)
Decimal(v) ==
    IF v < 10 THEN <<Digit(v)>> ELSE Decimal(v \div 10) \o <<Digit(v % 10)>>

\* client.rs:250-276, stream_log_by_fingerprint: format! writes the
\* fingerprint into the text in decimal, before the fragment; it is not a
\* parameter
QueryLogExtendedQuery(fingerprint, f, clock) ==
    LET where == QueryLogFilter_build_where(f, clock)
    IN  [ status |-> "ok",
          clock |-> clock,
          fragments |-> <<where>>,
          sql |-> <<"SELECT ... FROM query_log ",
                    "WHERE type != 'QueryStart' AND query_kind = 'Select' ",
                    "AND normalized_query_hash = ">>
                  \o Decimal(fingerprint) \o <<" ">>
                  \o where.text \o <<" GROUP BY normalized_query_hash">>,
          params |-> where.params ]

\* the query the stream_* method c builds: the methods of the three
\* handlers, and stream_log_by_fingerprint
BuildFor(c, f, clock) ==
    IF Panics(f, clock) THEN Panicked
    ELSE CASE c = "top_queries" ->
                QueryLogQuery("WITH ... FROM query_log ",
                              <<" GROUP BY normalized_query_hash">>, f, clock)
           [] c = "total_queries" ->
                QueryLogQuery("WITH ... FROM query_log ", <<>>, f, clock)
           [] c = "top_errors" -> ErrorQuery(f, clock)
           [] c = "log_by_fingerprint" ->
                QueryLogExtendedQuery(req.fingerprint, f, clock)

\* a field of two digits, zero-padded
TwoDigits(n) == <<Digit(n \div 10), Digit(n % 10)>>

\* "[year]-[month]-[day] [hour]:[minute]:[second]" of the date and time of
\* day that lie `millis` after 2024-05-01 00:00:00, within that month
FormatDateTime(millis) ==
    LET secs == millis \div 1000
        day == secs \div (24 * 3600)
        hour == (secs % (24 * 3600)) \div 3600
        minute == (secs % 3600) \div 60
        second == secs % 60
    IN  <<"2024", "-", "05", "-">> \o TwoDigits(day + 1) \o <<" ">>
        \o TwoDigits(hour) \o <<":">> \o TwoDigits(minute) \o <<":">>
        \o TwoDigits(second)

\* filter.rs:29-42, QueryParam::to_sql_string: t.format(..) writes the date
\* and time of day of the value's own offset
to_sql_string(param) ==
    CASE param.kind = "DateTime" -> FormatDateTime(LocalMillis(param.value))
      [] param.kind = "UInt64" -> Decimal(param.value)
      [] param.kind = "Int32" ->
            IF param.value < 0 THEN <<"-">> \o Decimal(0 - param.value)
            ELSE Decimal(param.value)
      [] param.kind = "String" -> <<param.value>>

\* A node that builds the text and the parameters itself when it starts.
build_query_with_params_rebuilt(sql, params) ==
    LET q == BuildFor(cmd, filter, now)
    IN  [ status |-> "ok", sql |-> q.sql,
          bound |-> [i \in DOMAIN q.params |-> to_sql_string(q.params[i])] ]

\* client.rs:388-398, build_query_with_params: the text, and the parameters
\* rendered and bound in order
build_query_with_params(sql, params) ==
    [ status |-> "ok", sql |-> sql,
      bound |-> [i \in DOMAIN params |-> to_sql_string(params[i])] ]

\* the filters the stream_* method of command c takes
FiltersOf(c) == IF c = "top_errors" THEN ErrorFilters ELSE QueryLogFilters

\* cli.rs:140-177, the filter arguments `queries` and `total` may be given
QueriesFilterArgs ==
    [ kind : {"QueriesFilterArgs"},
      from : {None} \cup { Some(a) : a \in FromArgs },
      to : {None} \cup { Some(a) : a \in ToArgs },
      last : {None} \cup { Some(d) : d \in LastArgs },
      query_user : {<<>>},
      database : {<<>>},
      table : Lists({"t1", "t2"}),
      min_query_duration : {None},
      min_read_rows : {None},
      min_read_data : {None} ]

\* cli.rs:181-199, the filter arguments `errors` may be given
ErrorFilterArgs ==
    [ kind : {"ErrorFilterArgs"},
      last : {None} \cup { Some(d) : d \in LastArgs },
      min_count : {None, Some(5)},
      code : Lists({1002, 1003}) ]

ArgsOf(c) == IF c = "top_errors" THEN ErrorFilterArgs ELSE QueriesFilterArgs

\* the command line was refused by the argument parser
Rejected == [kind |-> "rejected"]

\* A group that is satisfied by any choice of its arguments.
from_or_last_optional(a) == TRUE

\* cli.rs:135-139, ArgGroup "from_or_last": required, and its arguments
\* exclude each other
from_or_last(a) == a.from.some # a.last.some

\* the value of an optional timestamp argument, parsed when it is given
ParsedArg(o) == IF o.some THEN Some(parse_datetime(o.value).value) ELSE None

\* cli.rs:140-177 with model.rs:110-125 and filter.rs:112-126: the filter a
\* command line gives, unless a value parser or the group refuses it
FilterOfArgs(a) ==
    IF a.kind = "ErrorFilterArgs"
    THEN [ kind |-> "ErrorFilter", last |-> a.last,
           min_count |-> a.min_count, code |-> a.code ]
    ELSE IF \/ a.from.some /\ ~parse_datetime(a.from.value).ok
            \/ a.to.some /\ ~parse_datetime(a.to.value).ok
            \/ ~from_or_last(a)
    THEN Rejected
    ELSE [ kind |-> "QueryLogFilter",
           from |-> ParsedArg(a.from),
           to |-> ParsedArg(a.to),
           last |-> a.last,
           users |-> a.query_user,
           databases |-> a.database,
           tables |-> a.table,
           min_query_duration |-> a.min_query_duration,
           min_read_rows |-> a.min_read_rows,
           min_read_data |-> a.min_read_data ]

\* the stream_* methods of Client: those of the three handlers, and
\* stream_log_by_fingerprint, which no handler of command.rs calls
StreamMethods == Commands \cup {"log_by_fingerprint"}

\* fingerprints stream_log_by_fingerprint is called with
Fingerprints == {4660}

\* what the method is called with besides the filter
MethodRequests(c) ==
    IF c = "log_by_fingerprint"
    THEN { [fingerprint |-> h] : h \in Fingerprints }
    ELSE { DefaultRequest(c) }

\* the pipeline, which takes no step in the specifications of the builder
IdlePipeline ==
    /\ cmd \in StreamMethods
    /\ req \in MethodRequests(cmd)
    /\ capacity = CHANNEL_CAPACITY
    /\ overflow_checks = FALSE
    /\ nodes = MaxNodes
    /\ script = NoRows
    /\ hpc = "none"
    /\ stream_result = Unpolled
    /\ npc = NoRows
    /\ qpc = NoQuiet
    /\ fetched = NoRows
    /\ pending = NoRows
    /\ chan = <<>>
    /\ received = NoRows
    /\ InitCommon
    /\ now \in Clock
    /\ built = NotBuilt
    /\ node_query = [n \in 1..nodes |-> NotBuilt]
    /\ InitNoContext

\* A stream_* method is about to be called with a filter, as a caller of the
\* library may call it.
InitFilter ==
    /\ IdlePipeline
    /\ args = NoArgs
    /\ filter \in FiltersOf(cmd)

\* The command line has been typed.
InitCli ==
    /\ IdlePipeline
    /\ cmd \in Commands
    /\ args \in ArgsOf(cmd)
    /\ filter = NoFilter

\* lib.rs:16, CliArgs::parse(): the arguments become the filter of the
\* request, or the process ends with a usage error
ParseArgs ==
    /\ args # NoArgs
    /\ filter = NoFilter
    /\ filter' = FilterOfArgs(args)
    /\ UNCHANGED << cmd, req, capacity, overflow_checks, nodes, script, hpc,
                    stream_result, first_failure, npc, qpc, fetched, pending, chan,
                    apc, total_queries, queries, errors, received,
                    analyzer_result, printed, now, built, args, node_query,
                    context_vars >>

\* time passes
Tick ==
    /\ \E later \in Clock : later.utc > now.utc /\ now' = later
    /\ UNCHANGED << cmd, req, capacity, overflow_checks, nodes, script, hpc,
                    stream_result, first_failure, npc, qpc, fetched, pending, chan,
                    apc, total_queries, queries, errors, received,
                    analyzer_result, printed, filter, built, args, node_query,
                    context_vars >>

\* client.rs:190-213, 309-332, 361-379: the method builds the text and the
\* parameters of its query from the filter, reading the clock as it does
BuildQuery ==
    /\ filter.kind \in {"QueryLogFilter", "ErrorFilter"}
    /\ built = NotBuilt
    /\ built' = BuildFor(cmd, filter, now)
    /\ UNCHANGED << cmd, req, capacity, overflow_checks, nodes, script, hpc,
                    stream_result, first_failure, npc, qpc, fetched, pending, chan,
                    apc, total_queries, queries, errors, received,
                    analyzer_result, printed, filter, now, args, node_query,
                    context_vars >>

\* client.rs:153-154, the execution of node n starts: the closure binds the
\* parameters to the text for this node
NodeQuery(n) ==
    /\ built.status = "ok"
    /\ node_query[n] = NotBuilt
    /\ node_query' = [node_query EXCEPT
                         ![n] = build_query_with_params(built.sql, built.params)]
    /\ UNCHANGED << cmd, req, capacity, overflow_checks, nodes, script, hpc,
                    stream_result, first_failure, npc, qpc, fetched, pending, chan,
                    apc, total_queries, queries, errors, received,
                    analyzer_result, printed, filter, now, built, args,
                    context_vars >>

NextFilter ==
    \/ BuildQuery
    \/ Tick
    \/ \E n \in Nodes : NodeQuery(n)

SpecFilter == InitFilter /\ [][NextFilter]_vars

NextCli ==
    \/ ParseArgs
    \/ NextFilter

SpecCli == InitCli /\ [][NextCli]_vars

\* Either way in: through the command line, or by a call of the library.
InitEntry == InitCli \/ InitFilter

SpecEntry == InitEntry /\ [][NextCli]_vars

(***************************************************************************)
(* Properties of the fan-out and of the handlers.                          *)
(***************************************************************************)
\* the rows node n's cursor yields, in the order it yields them
RowsOfNode(n) == [i \in 1..script[n].len |-> Msg(n, i)]

RECURSIVE SumField(_, _, _)
SumField(S, i, f) ==
    IF S = {} THEN 0
    ELSE LET n == CHOOSE x \in S : TRUE
         IN  RowOf(cmd, n, i)[f] + SumField(S \ {n}, i, f)

\* the nodes that yield a row with key number i
Holders(i) == {n \in Nodes : script[n].len >= i}

\* The analyzer's tables hold every row of every node merged once: each key
\* some node yields is present, no other key is, and the counter that is
\* summed per key equals the sum over the rows with that key.
TablesHoldEveryRowOnce ==
    CASE cmd = "top_queries" ->
            /\ DOMAIN queries = {i \in 1..MaxRows : Holders(i) # {}}
            /\ \A i \in DOMAIN queries :
                  queries[i].total_read_rows = SumField(Holders(i), i, "total_read_rows")
      [] cmd = "top_errors" ->
            /\ DOMAIN errors = {1001 + i : i \in {j \in 1..MaxRows : Holders(j) # {}}}
            /\ \A i \in 1..MaxRows :
                  Holders(i) # {} =>
                      errors[1001 + i].count = SumField(Holders(i), i, "count")
      [] cmd = "total_queries" ->
            total_queries.queries_count = SumField(Holders(1), 1, "queries_count")

\* the node executions that have ended in failure
FailedNodes == {n \in Nodes : npc[n] \in {"failed", "send_failed"}}

\* the error node n's failed execution returned
ErrorOf(n) == IF npc[n] = "failed" THEN QueryError(n) ELSE SendError(n)

\* an execution before the first failed one, in the order of the
\* configuration, has not succeeded
FailureHeld == \E m \in 1..(FirstOf(FailedNodes) - 1) : Positions[m] # "done"

\* C1: the fan-out returns success only if every node execution succeeded;
\* once a node execution has failed the result is that of a failure, never
\* success, whatever the other nodes completed and forwarded.  With at most
\* SMALL nodes it is an error as soon as the execution has failed; with
\* more nodes it is undecided only while an execution before the first
\* failed one has not succeeded, and is an error from then on.
C1_SuccessOnlyIfEveryNodeSucceeded ==
    /\ stream_result.status = "ok" =>
          /\ \A n \in AllNodes : Positions[n] = "done"
          /\ \A n \in Nodes : ~script[n].fails
    /\ FailedNodes # {} =>
          /\ stream_result.status \in {"pending", "err"}
          /\ stream_result.status = "pending" => (nodes > SMALL /\ FailureHeld)

\* one node failed after another node had completed and its rows had been
\* forwarded to and received by the analyzer
C1_Witness ==
    /\ stream_result.status = "err"
    /\ \E n, m \in Nodes :
          /\ npc[n] = "failed"
          /\ npc[m] = "done"
          /\ script[m].len >= 1
          /\ Len(received[m]) = script[m].len

\* C2: the handlers hand a result to the output renderer only when the
\* stream result is success, and what they hand over is the analyzer's
\* result computed from the tables that hold every row of every node; on a
\* failed fan-out nothing is ever printed.
C2_OutputOnlyOnSuccess ==
    /\ stream_result.status = "err" => printed = <<>>
    /\ printed # <<>> =>
          /\ stream_result.status = "ok"
          /\ printed = analyzer_result
          /\ printed[1] \in AnalyzerResults
          /\ \A n \in Nodes : received[n] = RowsOfNode(n)
          /\ TablesHoldEveryRowOnce

\* a handler has returned the stream error of a fan-out of which the
\* analyzer had merged rows
C2_Witness ==
    /\ hpc = "failed"
    /\ printed = <<>>
    /\ analyzer_result # <<>>
    /\ \E n \in Nodes : received[n] # <<>>

\* C3: when the fan-out has succeeded and the analyzer has finished, every
\* node has run to completion once, and the rows the analyzer merged are
\* exactly the rows the nodes yielded, each once and none else.
C3_EveryRowMergedOnce ==
    (stream_result.status = "ok" /\ apc = "finalized") =>
        /\ \A n \in AllNodes : Positions[n] = "done"
        /\ \A n \in Nodes :
              /\ npc[n] = "done"
              /\ fetched[n] = script[n].len
              /\ received[n] = RowsOfNode(n)
        /\ chan = <<>>
        /\ TablesHoldEveryRowOnce

\* a successful fan-out over two nodes that share a key
C3_Witness ==
    /\ stream_result.status = "ok"
    /\ apc = "finalized"
    /\ nodes >= 2
    /\ \A n \in Nodes : script[n].len >= 1

\* C4: under fair scheduling one invocation terminates, whatever the number
\* of nodes, the capacity and the outcome of each node: the fan-out
\* resolves, the analyzer finalizes and the handler returns.  No state in
\* which producers wait for room or the analyzer waits for a row lasts for
\* ever.
C4_Terminates ==
    <>(/\ stream_result.status \in {"ok", "err"}
       /\ apc = "finalized"
       /\ hpc \in {"done", "failed"})

\* an invocation has ended in failure after rows went through a channel of
\* capacity one
C4_Witness ==
    /\ hpc = "failed"
    /\ capacity = 1
    /\ \E n \in Nodes : Len(received[n]) >= 2

\* C5: the error the fan-out returns is that of the node execution whose
\* failure was encountered first; no later failure takes its place.
C5_FirstFailureReported ==
    stream_result.status = "err" =>
        /\ first_failure \in Nodes
        /\ npc[first_failure] \in {"failed", "send_failed"}
        /\ stream_result =
              IF npc[first_failure] = "failed"
              THEN QueryError(first_failure) ELSE SendError(first_failure)

\* the fan-out has failed while another node that was going to fail too was
\* still running
C5_Witness ==
    /\ stream_result.status = "err"
    /\ \E m \in Nodes :
          /\ m # first_failure
          /\ script[m].fails
          /\ npc[m] = "cancelled"

\* C6 as stated: the fan-out resolves to the error only once every node
\* execution has ended by itself, in success or in failure; peers are not
\* cancelled.
C6_Original ==
    stream_result.status = "err" =>
        \A n \in AllNodes : Positions[n] \in {"done", "failed", "send_failed"}

\* C6 amended: after a failure the fan-out resolves to an error without
\* waiting for the running executions to end: with at most SMALL nodes in
\* the step in which an execution fails, with more nodes as soon as every
\* execution before the first failed one, in the order of the configuration,
\* has succeeded.  Until the fan-out resolves no execution is cancelled: the
\* peers keep running.  When it resolves, the executions that still run are
\* cancelled where they are suspended, hold no row any more and never read or
\* send another row.
C6_ResolvesWithoutWaitingAndDropsPeers ==
    /\ FailedNodes # {} =>
          (stream_result.status = "err" <=> (nodes <= SMALL \/ ~FailureHeld))
    /\ stream_result.status = "pending" =>
          \A n \in AllNodes : Positions[n] # "cancelled"
    /\ stream_result.status = "err" =>
          /\ \A n \in AllNodes :
                Positions[n] \in {"done", "failed", "send_failed", "cancelled"}
          /\ \A n \in Nodes : pending[n] = <<>>

\* in a cluster of more than SMALL nodes the fan-out has failed while a peer
\* had rows left to read
C6_Witness ==
    /\ nodes > SMALL
    /\ stream_result.status = "err"
    /\ \E n \in Nodes : npc[n] = "cancelled" /\ fetched[n] < script[n].len

\* C7 as stated: the channel never holds more rows than its capacity, and a
\* node execution that sends to a full channel stays suspended, holding its
\* row, until there is room; the row then goes behind the rows in the channel.
C7_Original ==
    [][ /\ Len(chan') <= capacity
        /\ \A n \in Nodes :
              /\ (npc[n] = "send" /\ Len(chan) >= capacity) =>
                    (npc'[n] = "send" /\ pending'[n] = pending[n])
              /\ (npc[n] = "send" /\ npc'[n] = "next") =>
                    (Len(chan) < capacity /\ chan' = Append(chan, pending[n][1]))
      ]_vars

\* C7 amended: as stated, except that a suspended send also ends when the
\* fan-out fails: the execution is then cancelled and its row discarded.
C7_BoundedChannelBackpressure ==
    [][ /\ Len(chan') <= capacity
        /\ \A n \in Nodes :
              /\ (npc[n] = "send" /\ Len(chan) >= capacity) =>
                    \/ npc'[n] = "send" /\ pending'[n] = pending[n]
                    \/ npc'[n] = "cancelled" /\ stream_result'.status = "err"
              /\ (npc[n] = "send" /\ npc'[n] = "next") =>
                    (Len(chan) < capacity /\ chan' = Append(chan, pending[n][1]))
      ]_vars

\* a node execution is suspended in a send on a full channel
C7_Witness ==
    \E n \in Nodes : npc[n] = "send" /\ Len(chan) = capacity

(***************************************************************************)
(* Properties of the merge (checked under SpecMerge, where the analyzer    *)
(* records the rows it has merged, in order, under source 0).              *)
(***************************************************************************)
\* the rows the analyzer has merged, in the order it merged them
MergedRows == [i \in 1..Len(received[0]) |-> received[0][i].row]

\* the positions of MergedRows that carry fingerprint k
RowsOfFingerprint(k) ==
    {i \in 1..Len(MergedRows) : MergedRows[i].normalized_query_hash = k}

\* the sum, in unbounded integers, of field f over the merged rows of
\* fingerprint k
RECURSIVE SumMerged(_, _, _)
SumMerged(rows, k, f) ==
    IF rows = <<>> THEN 0
    ELSE (IF Head(rows).normalized_query_hash = k THEN Head(rows)[f] ELSE 0)
         + SumMerged(Tail(rows), k, f)

\* analyzer.rs:148-152 run on a given sequence of rows: each is merged in turn
RECURSIVE MergeAll(_, _)
MergeAll(qs, rows) ==
    IF rows = <<>> THEN qs
    ELSE MergeAll(merge_query(qs, Head(rows)), Tail(rows))

\* the rearrangements of n positions
MergeOrders(n) ==
    {p \in [1..n -> 1..n] : \A i, j \in 1..n : i # j => p[i] # p[j]}

\* C8: after every merge step, in every record of the grouping table,
\* total_impact equals io_impact + cpu_impact + memory_impact + time_impact +
\* network_impact in u64 arithmetic; and as long as the scores of the merged
\* rows add up below 2^64 the equation holds in unbounded integers as well.
C8_TotalImpactIsSumOfImpacts ==
    cmd = "top_queries" =>
        \A k \in DOMAIN queries :
            LET q == queries[k]
                sum == q.io_impact + q.cpu_impact + q.memory_impact
                       + q.time_impact + q.network_impact
            IN  /\ q.total_impact = WrapU64(sum)
                /\ SumMerged(MergedRows, k, "total_impact") < U64Modulus =>
                      q.total_impact = sum

\* a record into which three rows have been merged, two of them heavy enough
\* for the sums to have wrapped around, with a network score
C8_Witness ==
    /\ cmd = "top_queries"
    /\ ~overflow_checks
    /\ \E k \in DOMAIN queries :
          /\ Cardinality(RowsOfFingerprint(k)) >= 3
          /\ queries[k].network_impact > 0
          /\ SumMerged(MergedRows, k, "total_impact") >= U64Modulus

\* C9 as stated: merging the rows of the fingerprints in any other order
\* yields the same records, every field included.
C9_Original ==
    cmd = "top_queries" =>
        \A p \in MergeOrders(Len(MergedRows)) :
            MergeAll(EmptyMap, [i \in 1..Len(MergedRows) |-> MergedRows[p[i]]]) = queries

\* C9 amended: merging the rows in any other order yields records that agree
\* in every field but the query text: counters, time bounds, lists and scores
\* are the same, and the text is that of the row merged first for the
\* fingerprint.
C9_MergeOrderIndependentButQueryText ==
    cmd = "top_queries" =>
        \A p \in MergeOrders(Len(MergedRows)) :
            LET rows == [i \in 1..Len(MergedRows) |-> MergedRows[p[i]]]
                other == MergeAll(EmptyMap, rows)
            IN  /\ DOMAIN other = DOMAIN queries
                /\ \A k \in DOMAIN queries :
                      LET first == CHOOSE i \in 1..Len(rows) :
                                      /\ rows[i].normalized_query_hash = k
                                      /\ \A j \in 1..(i - 1) :
                                            rows[j].normalized_query_hash # k
                      IN  /\ [other[k] EXCEPT !.query = queries[k].query] = queries[k]
                          /\ other[k].query = rows[first].query

\* rows of one fingerprint with different texts and overlapping, differently
\* ordered lists have been merged
C9_Witness ==
    /\ cmd = "top_queries"
    /\ \E i, j \in 1..Len(MergedRows) :
          /\ i < j
          /\ MergedRows[i].normalized_query_hash = MergedRows[j].normalized_query_hash
          /\ MergedRows[i].query # MergedRows[j].query
          /\ MergedRows[i].users # MergedRows[j].users

\* C10 as stated: in every record, whether one row or several were merged
\* for its fingerprint, the users, databases and tables lists are strictly
\* ascending (sorted and duplicate-free) and hold exactly the strings of the
\* corresponding lists of the rows merged for the fingerprint.
C10_ListsSortedDeduplicatedUnion ==
    cmd = "top_queries" =>
        \A k \in DOMAIN queries :
            \A f \in ListFields :
                /\ IsSortedStrict(queries[k][f])
                /\ Range(queries[k][f]) =
                      UNION {Range(MergedRows[i][f]) : i \in RowsOfFingerprint(k)}

(***************************************************************************)
(* Properties of the error merge and of the totals (SpecMerge).            *)
(***************************************************************************)
\* the positions of MergedRows that carry error code c
RowsOfCode(c) == {i \in 1..Len(MergedRows) : MergedRows[i].code = c}

\* the sum, in unbounded integers, of field f over the rows at positions S
RECURSIVE SumAt(_, _, _)
SumAt(rows, S, f) ==
    IF S = {} THEN 0
    ELSE LET i == CHOOSE x \in S : TRUE
         IN  rows[i][f] + SumAt(rows, S \ {i}, f)

\* C11 as stated: for each error code, after any sequence of rows for that
\* code, count is the sum of the rows' counts, last_error_time is the latest
\* of the rows' times, and name and error_message are those of the first row
\* received for the code.
C11_ErrorStatMerge ==
    cmd = "top_errors" =>
        /\ DOMAIN errors = {MergedRows[i].code : i \in 1..Len(MergedRows)}
        /\ \A c \in DOMAIN errors :
              LET first == CHOOSE i \in RowsOfCode(c) :
                              \A j \in RowsOfCode(c) : i <= j
              IN  /\ errors[c].count = SumAt(MergedRows, RowsOfCode(c), "count")
                  /\ \E i \in RowsOfCode(c) :
                        errors[c].last_error_time = MergedRows[i].last_error_time
                  /\ \A i \in RowsOfCode(c) :
                        errors[c].last_error_time >= MergedRows[i].last_error_time
                  /\ errors[c].name = MergedRows[first].name
                  /\ errors[c].error_message = MergedRows[first].error_message

\* C11 apart from overflow: the same, for the codes whose counts add up below
\* 2^64.
C11_ErrorStatMergeInRange ==
    cmd = "top_errors" =>
        /\ DOMAIN errors = {MergedRows[i].code : i \in 1..Len(MergedRows)}
        /\ \A c \in DOMAIN errors :
              LET first == CHOOSE i \in RowsOfCode(c) :
                              \A j \in RowsOfCode(c) : i <= j
              IN  /\ SumAt(MergedRows, RowsOfCode(c), "count") < U64Modulus =>
                        errors[c].count = SumAt(MergedRows, RowsOfCode(c), "count")
                  /\ \E i \in RowsOfCode(c) :
                        errors[c].last_error_time = MergedRows[i].last_error_time
                  /\ \A i \in RowsOfCode(c) :
                        errors[c].last_error_time >= MergedRows[i].last_error_time
                  /\ errors[c].name = MergedRows[first].name
                  /\ errors[c].error_message = MergedRows[first].error_message

\* C8 as stated, the sum being the sum of the five numbers: after every merge
\* step total_impact is io_impact + cpu_impact + memory_impact + time_impact +
\* network_impact.
C8_TotalImpactIsExactSum ==
    cmd = "top_queries" =>
        \A k \in DOMAIN queries :
            queries[k].total_impact =
                queries[k].io_impact + queries[k].cpu_impact
                + queries[k].memory_impact + queries[k].time_impact
                + queries[k].network_impact

\* analyzer.rs:154-158 run on a given sequence of rows: each is merged in turn
RECURSIVE MergeAllTotal(_, _)
MergeAllTotal(total, rows) ==
    IF rows = <<>> THEN total
    ELSE MergeAllTotal(merge_query_total(total, Head(rows)), Tail(rows))

\* C12 as stated: the accumulator is the same in whatever order the rows
\* received are merged, each of its seven fields is the sum of that field over
\* the rows, it is all zeros with no rows, and it is what total_queries
\* returns.
C12_TotalsAreSums ==
    cmd = "total_queries" =>
        /\ \A p \in MergeOrders(Len(MergedRows)) :
              MergeAllTotal(ZeroTotal, [i \in 1..Len(MergedRows) |-> MergedRows[p[i]]])
                  = total_queries
        /\ \A f \in TotalFields :
              total_queries[f] = SumAt(MergedRows, 1..Len(MergedRows), f)
        /\ MergedRows = <<>> => total_queries = ZeroTotal
        /\ analyzer_result # <<>> => analyzer_result[1] = total_queries

\* C12 apart from overflow: the same, each field being the sum as long as
\* that sum is below 2^64.
C12_TotalsAreSumsInRange ==
    cmd = "total_queries" =>
        /\ \A p \in MergeOrders(Len(MergedRows)) :
              MergeAllTotal(ZeroTotal, [i \in 1..Len(MergedRows) |-> MergedRows[p[i]]])
                  = total_queries
        /\ \A f \in TotalFields :
              SumAt(MergedRows, 1..Len(MergedRows), f) < U64Modulus =>
                  total_queries[f] = SumAt(MergedRows, 1..Len(MergedRows), f)
        /\ MergedRows = <<>> => total_queries = ZeroTotal
        /\ analyzer_result # <<>> => analyzer_result[1] = total_queries

(***************************************************************************)
(* Properties of the ranking (SpecMerge).                                  *)
(***************************************************************************)
\* C13: once the stream is exhausted, top_queries(limit, sort_by) returns
\* min(limit, number of distinct fingerprints) records of the grouping table,
\* each fingerprint at most once, in non-increasing order of the selected
\* metric, and no record left out has a strictly greater metric than a record
\* returned.
C13_TopQueriesRanking ==
    (cmd = "top_queries" /\ apc = "finalized") =>
        LET top == analyzer_result[1]
            returned == {top[i].normalized_query_hash : i \in 1..Len(top)}
        IN  /\ Len(top) = MinOf(req.limit, Cardinality(DOMAIN queries))
            /\ \A i \in 1..Len(top) :
                  /\ top[i].normalized_query_hash \in DOMAIN queries
                  /\ top[i] = queries[top[i].normalized_query_hash]
            /\ Cardinality(returned) = Len(top)
            /\ \A i \in 1..(Len(top) - 1) :
                  Metric(top[i], req.sort_by) >= Metric(top[i + 1], req.sort_by)
            /\ \A k \in DOMAIN queries \ returned :
                  \A i \in 1..Len(top) :
                      Metric(queries[k], req.sort_by) <= Metric(top[i], req.sort_by)

\* three fingerprints ranked by total impact with limit 2: the two greatest
\* are returned, greatest first, and the third is left out
C13_Witness ==
    /\ cmd = "top_queries"
    /\ apc = "finalized"
    /\ req = [limit |-> 2, sort_by |-> "TotalImpact"]
    /\ Cardinality(DOMAIN queries) = 3
    /\ Len(analyzer_result[1]) = 2
    /\ analyzer_result[1][1].total_impact > analyzer_result[1][2].total_impact
    /\ \E k \in DOMAIN queries :
          queries[k].total_impact < analyzer_result[1][2].total_impact

\* C14: top_errors(limit) returns the first min(limit, number of distinct
\* codes) records of the merged table in the order count descending, code
\* ascending among equal counts: the records returned are in that order and
\* every record left out comes after every record returned.
C14_TopErrorsRanking ==
    (cmd = "top_errors" /\ apc = "finalized") =>
        LET top == analyzer_result[1]
            returned == {top[i].code : i \in 1..Len(top)}
            before(a, b) ==
                \/ a.count > b.count
                \/ a.count = b.count /\ a.code < b.code
        IN  /\ Len(top) = MinOf(req.limit, Cardinality(DOMAIN errors))
            /\ \A i \in 1..Len(top) :
                  /\ top[i].code \in DOMAIN errors
                  /\ top[i] = errors[top[i].code]
            /\ \A i \in 1..(Len(top) - 1) : before(top[i], top[i + 1])
            /\ \A c \in DOMAIN errors \ returned :
                  \A i \in 1..Len(top) : before(top[i], errors[c])

\* codes 1002 and 1003 both at count 5, limit 1: the record of 1002 is
\* returned
C14_Witness ==
    /\ cmd = "top_errors"
    /\ apc = "finalized"
    /\ req.limit = 1
    /\ DOMAIN errors = {1002, 1003}
    /\ errors[1002].count = 5
    /\ errors[1003].count = 5
    /\ analyzer_result[1] = <<errors[1002]>>

(***************************************************************************)
(* Overflow of the additions (SpecMerge).                                  *)
(***************************************************************************)
\* the value a saturating u64 addition stores for a sum
SaturateU64(x) == MinOf(x, U64Modulus - 1)

\* C15 as stated: every addition of the merge saturates.  The run is never
\* aborted by an addition, and every summed field holds the sum of the rows'
\* values capped at 2^64-1: the raw counters and scores of each fingerprint,
\* the count of each error code, and the seven fields of the totals.
C15_SaturatingAdditions ==
    /\ apc # "panicked"
    /\ cmd = "top_queries" =>
          \A k \in DOMAIN queries :
              \A f \in RawFields \cup ImpactFields :
                  queries[k][f] = SaturateU64(SumMerged(MergedRows, k, f))
    /\ cmd = "top_errors" =>
          \A c \in DOMAIN errors :
              errors[c].count =
                  SaturateU64(SumAt(MergedRows, RowsOfCode(c), "count"))
    /\ cmd = "total_queries" =>
          \A f \in TotalFields :
              total_queries[f] =
                  SaturateU64(SumAt(MergedRows, 1..Len(MergedRows), f))

(***************************************************************************)
(* Properties of the errors of the fan-out (Spec).                         *)
(***************************************************************************)
\* C16 as stated: when the query of a node fails (connection failure,
\* malformed response or error response of the node), the fan-out returns a
\* query error that carries the identity of that node and the underlying
\* cause.
C16_QueryErrorCarriesNodeAndCause ==
    (stream_result.status = "err" /\ npc[FirstOf(FailedNodes)] = "failed") =>
        stream_result =
            ClientError_Query_with_node(FirstOf(FailedNodes),
                                        NodeFailure(FirstOf(FailedNodes)))

\* C17: the analyzer is collecting or finalized.  It becomes finalized in one
\* step, taken when the channel is empty and every sender has been dropped;
\* that step computes the result from the merged tables without changing
\* them.  Once finalized it stays finalized: no row is merged any more, and
\* the tables and the result stay as they are.
C17_AnalyzerFinalizesOnce ==
    [][ /\ apc \in {"collecting", "finalized"}
        /\ apc' \in {"collecting", "finalized"}
        /\ (apc = "collecting" /\ apc' = "finalized") =>
              /\ chan = <<>>
              /\ stream_result.status \in {"ok", "err"}
              /\ \A n \in AllNodes : Positions[n] \notin {"next", "send"}
              /\ << total_queries, queries, errors, received >>'
                    = << total_queries, queries, errors, received >>
              /\ analyzer_result = <<>>
              /\ analyzer_result' # <<>>
              /\ analyzer_result'[1] \in AnalyzerResults
        /\ apc = "finalized" =>
              /\ apc' = "finalized"
              /\ << total_queries, queries, errors, received, analyzer_result >>'
                    = << total_queries, queries, errors, received, analyzer_result >>
        /\ apc' = "collecting" => analyzer_result' = <<>>
      ]_vars

\* the handler has returned after the analyzer finalized on rows of two nodes
C17_Witness ==
    /\ apc = "finalized"
    /\ hpc = "done"
    /\ nodes >= 2
    /\ \A n \in Nodes : received[n] # <<>>

(***************************************************************************)
(* The fan-out with a consumer that may go away.  Client::stream_* are     *)
(* public and take the sender of a channel whose receiver the caller       *)
(* holds; a caller may drop that receiver while node executions still      *)
(* send.  The rows in the channel are then dropped with it, and every      *)
(* send, suspended or later, fails.                                        *)
(***************************************************************************)
InitFanout ==
    /\ Init
    /\ cmd = "top_errors"
    /\ req = DefaultRequest(cmd)
    /\ capacity \in {1, CHANNEL_CAPACITY}

\* the consumer drops the receiver without having seen the end of the
\* stream: before the stream task is first polled, while it runs, or after it
\* has returned with rows still unread
ReceiverDrop ==
    /\ apc = "collecting"
    /\ apc' = "dropped"
    /\ chan' = <<>>
    /\ UNCHANGED << filter_vars,
                    cmd, req, capacity, overflow_checks, nodes, script, hpc,
                    stream_result, first_failure, npc, qpc, fetched, pending,
                    total_queries, queries, errors, received, analyzer_result,
                    printed >>

NextFanout ==
    \/ Next
    \/ ReceiverDrop

SpecFanout == InitFanout /\ [][NextFanout]_vars

\* C18 as stated: once the consumer side of the channel has terminated, no
\* row enters the channel any more; a node execution that has a row to send
\* leaves its send only by failing (or by being cancelled by a failure of
\* the fan-out), and an execution whose send failed reads and sends nothing
\* further.  The fan-out result is never success, and once the fan-out has
\* resolved its result is the channel send failure.
C18_SendFailsWhenConsumerGone ==
    [][ /\ apc = "dropped" =>
              /\ chan' = <<>>
              /\ \A n \in Nodes :
                    (npc[n] = "send" /\ npc'[n] # "send") =>
                        /\ npc'[n] \in {"send_failed", "cancelled"}
                        /\ stream_result'.status \in {"pending", "err"}
        /\ \A n \in Nodes :
              npc'[n] = "send_failed" =>
                  /\ stream_result'.status \in {"pending", "err"}
                  /\ stream_result'.status = "err" =>
                        stream_result' = [status |-> "err", kind |-> "Send", cause |-> ""]
        /\ \A n \in Nodes :
              npc[n] = "send_failed" =>
                  /\ npc'[n] = "send_failed"
                  /\ fetched'[n] = fetched[n]
                  /\ pending'[n] = <<>>
      ]_vars

(***************************************************************************)
(* Order of the rows (Spec).                                               *)
(***************************************************************************)
\* the rows of node n that are in the channel, oldest first
InChannel(n) ==
    LET FromNode(m) == m.src = n
    IN  SelectSeq(chan, FromNode)

\* C19: the rows of one node reach the analyzer in the order in which the
\* node emitted them, under every interleaving: the rows of node n that the
\* analyzer has received, followed by those still in the channel, are the
\* first rows of the node's cursor, in the cursor's order.
C19_PerNodeOrder ==
    \A n \in Nodes :
        LET sent == received[n] \o InChannel(n)
        IN  /\ Len(sent) <= fetched[n]
            /\ sent = SubSeq(RowsOfNode(n), 1, Len(sent))

\* between nodes no order holds: the analyzer has received the first row of
\* node 1, and in the channel a row of node 2 is ahead of the second row of
\* node 1
C19_Witness ==
    /\ nodes >= 2
    /\ 1 \in Nodes
    /\ Len(received[1]) = 1
    /\ Len(chan) >= 2
    /\ chan[1].src = 2
    /\ chan[2] = Msg(1, 2)

(***************************************************************************)
(* Properties of the query builder.                                        *)
(***************************************************************************)
PlaceholderCount(text) == Cardinality({i \in DOMAIN text : text[i] = "?"})

\* the position of the k-th placeholder of a text, from the left
PlaceholderAt(text, k) ==
    CHOOSE i \in DOMAIN text :
        text[i] = "?" /\ Cardinality({j \in 1..i : text[j] = "?"}) = k

\* the piece that opens the clause the placeholder at position i stands in:
\* the nearest piece to its left that is neither a placeholder nor the
\* separator between two placeholders
ClauseStart(text, i) ==
    CHOOSE h \in 1..i :
        /\ text[h] \notin {"?", ", "}
        /\ \A j \in (h + 1)..i : text[j] \in {"?", ", "}

\* the lower bounds of event_time a filter asks for, `from` before `last`
LowerBounds(f, clock) ==
       (IF f.from.some THEN <<f.from.value>> ELSE <<>>)
    \o (IF f.last.some THEN <<OffsetDateTime_sub(clock, f.last.value)>> ELSE <<>>)

\* the value the criterion of filter f puts at the placeholder at position i
\* of a text: decided by the clause it stands in, and, within a membership
\* clause, by its rank among the placeholders of that clause
ValueFor(f, clock, text, i) ==
    LET h == ClauseStart(text, i)
        rank == Cardinality({j \in h..i : text[j] = "?"})
        occurrence == Cardinality({j \in 1..h : text[j] = text[h]})
    IN  CASE text[h] = "event_time >= toDateTime(" ->
                QueryParam_DateTime(LowerBounds(f, clock)[occurrence])
          [] text[h] = "event_time < toDateTime(" ->
                QueryParam_DateTime(f.to.value)
          [] text[h] = "user IN (" -> QueryParam_String(f.users[rank])
          [] text[h] = "read_rows >= " -> QueryParam_UInt64(f.min_read_rows.value)
          [] text[h] = "read_bytes >= " -> QueryParam_UInt64(f.min_read_data.value)
          [] text[h] = "query_duration_ms >= " ->
                QueryParam_UInt64(f.min_query_duration.value)
          [] text[h] = "hasAny(query_log.tables, [" ->
                QueryParam_String(f.tables[rank])
          [] text[h] = "hasAny(query_log.databases, [" ->
                QueryParam_String(f.databases[rank])
          [] text[h] = "code IN (" -> QueryParam_Int32(f.code[rank])
          [] text[h] = "count >= " -> QueryParam_UInt64(f.min_count.value)
          [] text[h] = "last_error_time >= toDateTime(" ->
                QueryParam_DateTime(OffsetDateTime_sub(clock, f.last.value))

\* as many parameters as placeholders, the k-th for the k-th placeholder
ParamsFollowPlaceholders(f, clock, text, params) ==
    /\ PlaceholderCount(text) = Len(params)
    /\ \A k \in 1..Len(params) :
          params[k] = ValueFor(f, clock, text, PlaceholderAt(text, k))

\* per fragment the filter's method builds, whether one criterion applies
Applicable(f) ==
    IF f.kind = "ErrorFilter"
    THEN << Len(f.code) # 0, f.min_count.some \/ f.last.some >>
    ELSE << \/ f.from.some \/ f.last.some \/ f.to.some
            \/ Len(f.users) # 0 \/ Len(f.tables) # 0 \/ Len(f.databases) # 0
            \/ f.min_read_rows.some \/ f.min_read_data.some
            \/ f.min_query_duration.some >>

\* C20: for every QueryLogFilter and every ErrorFilter, each fragment built
\* has as many placeholders as parameters and its i-th parameter is the
\* value of the criterion its i-th placeholder stands in; the same holds of
\* the whole query text and the parameters bound to it, so for the error
\* query the WHERE parameters come before the HAVING parameters; a fragment
\* without an applicable criterion is the empty text with no parameters.
C20_ParametersFollowPlaceholders ==
    built.status = "ok" =>
        /\ Len(built.fragments) = Len(Applicable(filter))
        /\ \A i \in DOMAIN built.fragments :
              /\ ParamsFollowPlaceholders(filter, built.clock,
                                          built.fragments[i].text,
                                          built.fragments[i].params)
              /\ ~Applicable(filter)[i] =>
                    /\ built.fragments[i].text = <<>>
                    /\ built.fragments[i].params = <<>>
        /\ ParamsFollowPlaceholders(filter, built.clock, built.sql, built.params)

\* an error query with two codes in WHERE and both criteria in HAVING
C20_Witness ==
    /\ built.status = "ok"
    /\ filter.kind = "ErrorFilter"
    /\ Len(filter.code) = 2
    /\ filter.min_count.some
    /\ filter.last.some
    /\ Len(built.params) = 4
    /\ PlaceholderCount(built.fragments[2].text) = 2

\* the number of clauses of a fragment: each follows an "AND " or " AND "
ClauseCount(text) ==
    Cardinality({i \in DOMAIN text : text[i] \in {"AND ", " AND "}})

\* how many clauses of a text open with the piece `head`
ClausesWith(text, head) == Cardinality({i \in DOMAIN text : text[i] = head})

\* the placeholders of the clause of a text that opens with `head`, as
\* positions of the text
PlaceholdersOf(text, head) ==
    {i \in DOMAIN text : text[i] = "?" /\ text[ClauseStart(text, i)] = head}

\* the parameters that go with the placeholders of that clause, left to right
ParamsOf(text, params, head) ==
    LET first == CHOOSE i \in PlaceholdersOf(text, head) :
                    \A j \in PlaceholdersOf(text, head) : i <= j
        before == Cardinality({j \in 1..(first - 1) : text[j] = "?"})
    IN  SubSeq(params, before + 1,
               before + Cardinality(PlaceholdersOf(text, head)))

\* a non-empty allow-list gives one membership clause opening with `head`,
\* with one placeholder per element and the elements as parameters of the
\* given kind in input order; an empty one gives no clause
MembershipRule(text, params, head, list, kind) ==
    IF Len(list) = 0 THEN ClausesWith(text, head) = 0
    ELSE /\ ClausesWith(text, head) = 1
         /\ Cardinality(PlaceholdersOf(text, head)) = Len(list)
         /\ ParamsOf(text, params, head)
               = [i \in DOMAIN list |-> [kind |-> kind, value |-> list[i]]]

\* of the criteria of a query-log filter only `from` is set, and possibly
\* the allow-list of tables
OnlyFromAndTables(f) ==
    /\ f.kind = "QueryLogFilter"
    /\ f.from.some
    /\ ~f.to.some /\ ~f.last.some
    /\ Len(f.users) = 0 /\ Len(f.databases) = 0
    /\ ~f.min_read_rows.some /\ ~f.min_read_data.some
    /\ ~f.min_query_duration.some

\* C21: a query-log filter with only `from` set builds exactly one clause
\* and exactly one timestamp parameter; a non-empty allow-list of k tables
\* in addition appends exactly one membership clause with k placeholders and
\* k text parameters, after the timestamp parameter and in the order of the
\* list; users, databases and error codes follow the same rule of one
\* placeholder per element in input order.
C21_FromAndAllowLists ==
    built.status = "ok" =>
        LET where == built.fragments[1]
        IN  /\ OnlyFromAndTables(filter) =>
                  /\ ClauseCount(where.text)
                        = 1 + (IF Len(filter.tables) = 0 THEN 0 ELSE 1)
                  /\ where.params
                        = <<QueryParam_DateTime(filter.from.value)>>
                          \o [i \in DOMAIN filter.tables |->
                                 QueryParam_String(filter.tables[i])]
                  /\ SubSeq(where.text, 1, 4)
                        = <<"AND ", "event_time >= toDateTime(", "?", ", 'UTC')">>
                  /\ Len(filter.tables) = 0 => Len(where.text) = 4
            /\ filter.kind = "QueryLogFilter" =>
                  /\ MembershipRule(where.text, where.params, "user IN (",
                                    filter.users, "String")
                  /\ MembershipRule(where.text, where.params,
                                    "hasAny(query_log.tables, [",
                                    filter.tables, "String")
                  /\ MembershipRule(where.text, where.params,
                                    "hasAny(query_log.databases, [",
                                    filter.databases, "String")
            /\ filter.kind = "ErrorFilter" =>
                  MembershipRule(where.text, where.params, "code IN (",
                                 filter.code, "Int32")

\* `from` and the tables t1, t2: two clauses, three parameters
C21_Witness ==
    /\ built.status = "ok"
    /\ OnlyFromAndTables(filter)
    /\ filter.tables = <<"t1", "t2">>
    /\ ClauseCount(built.fragments[1].text) = 2
    /\ built.params = << QueryParam_DateTime(filter.from.value),
                         QueryParam_String("t1"), QueryParam_String("t2") >>

\* the number a text of decimal digits denotes
DigitValue(c) == CHOOSE d \in 0..9 : Digit(d) = c

RECURSIVE DecimalValue(_)
DecimalValue(text) ==
    IF Len(text) = 1 THEN DigitValue(text[1])
    ELSE 10 * DecimalValue(SubSeq(text, 1, Len(text) - 1))
         + DigitValue(text[Len(text)])

\* text is the decimal numeral of v: digits only behind an optional minus
\* sign, no leading zero
IsDecimalOf(text, v) ==
    LET digits == IF v < 0 THEN Tail(text) ELSE text
    IN  /\ Len(digits) > 0
        /\ v < 0 => text[1] = "-"
        /\ \A i \in DOMAIN digits : \E d \in 0..9 : digits[i] = Digit(d)
        /\ Len(digits) > 1 => digits[1] # "0"
        /\ DecimalValue(digits) = (IF v < 0 THEN 0 - v ELSE v)

\* text is what parameter p is to be rendered as
RendersAs(p, text) ==
    CASE p.kind = "DateTime" -> text = FormatDateTime(p.value.utc)
      [] p.kind \in {"UInt64", "Int32"} -> IsDecimalOf(text, p.value)
      [] p.kind = "String" -> text = <<p.value>>

\* C22: in every query bound for a node, a timestamp parameter is rendered
\* as YYYY-MM-DD HH:MM:SS of its instant in UTC, whatever offset it was
\* supplied with; an integer parameter as its decimal numeral; a text
\* parameter unchanged.
C22_ParametersRenderedInUtc ==
    \A n \in DOMAIN node_query :
        node_query[n].status = "ok" =>
            /\ Len(node_query[n].bound) = Len(built.params)
            /\ \A i \in DOMAIN built.params :
                  RendersAs(built.params[i], node_query[n].bound[i])

\* the same for the parameters whose timestamp is in UTC: thresholds of
\* --last, dates, and RFC 3339 timestamps written with Z
C22_UtcParametersRendered ==
    \A n \in DOMAIN node_query :
        node_query[n].status = "ok" =>
            /\ Len(node_query[n].bound) = Len(built.params)
            /\ \A i \in DOMAIN built.params :
                  (built.params[i].kind = "DateTime"
                      => built.params[i].value.offset = 0)
                  => RendersAs(built.params[i], node_query[n].bound[i])

\* a query-log query has been built, or the attempt has panicked
QueryLogBuildStarted == cmd # "top_errors" /\ built # NotBuilt

\* the lower-bound clauses of event_time in the predicate built
LowerBoundClauses ==
    ClausesWith(built.fragments[1].text, "event_time >= toDateTime(")

\* C23, as stated: a query-log fan-out is started only with a filter in
\* which exactly one of `from` and `last` is set, so the predicate built
\* has exactly one lower-bound time clause.
C23_Original ==
    QueryLogBuildStarted =>
        /\ filter.from.some # filter.last.some
        /\ built.status = "ok" => LowerBoundClauses = 1

\* C23, for invocations through the command line: the argument parser
\* refuses both and neither of --from and --last, a refused command line
\* builds no query and starts no node execution, and the predicate of a
\* query-log query that is built has exactly one lower-bound time clause.
C23_CommandLineGivesOneLowerBound ==
    args.kind = "QueriesFilterArgs" =>
        /\ (filter # NoFilter /\ args.from.some = args.last.some)
              => filter = Rejected
        /\ filter = Rejected =>
              /\ built = NotBuilt
              /\ \A n \in DOMAIN node_query : node_query[n] = NotBuilt
        /\ QueryLogBuildStarted =>
              /\ filter.from.some # filter.last.some
              /\ built.status = "ok" => LowerBoundClauses = 1

\* a command line with both --from and --last has been refused
C23_Witness ==
    /\ args.kind = "QueriesFilterArgs"
    /\ args.from.some /\ args.last.some
    /\ parse_datetime(args.from.value).ok
    /\ filter = Rejected
    /\ built = NotBuilt

\* the nodes whose execution has started, and so hold a bound query
Started(q) == {n \in DOMAIN q : q[n].status = "ok"}

\* C28: within one fan-out the text and the parameters, a threshold derived
\* from the clock included, are built once, before any node execution
\* starts, and are not rebuilt afterwards; every node execution is given
\* that same text and the same rendered parameter values, whenever it starts.
C28_BuiltOnceSameForEveryNode ==
    [][ /\ built # NotBuilt => built' = built
        /\ \A n \in Started(node_query') :
              /\ built.status = "ok"
              /\ node_query'[n].sql = built.sql
              /\ \A m \in Started(node_query') :
                    /\ node_query'[m].sql = node_query'[n].sql
                    /\ node_query'[m].bound = node_query'[n].bound
        /\ \A n \in Started(node_query) : node_query'[n] = node_query[n]
      ]_vars

\* two nodes hold the query of a relative window, and the clock has moved
\* on from the reading the threshold was derived from
C28_Witness ==
    /\ Cardinality(Started(node_query)) >= 2
    /\ filter.last.some
    /\ built.status = "ok"
    /\ now # built.clock

\* C24: the analyzer finalizes only after the fan-out has resolved and no
\* node execution is left running; while the fan-out is unresolved, or any
\* node execution can still send a row, the analyzer is collecting, even
\* when other nodes have completed and the channel is empty.
C24_FinalizesAfterFanoutResolved ==
    /\ apc = "finalized" =>
          /\ stream_result.status \in {"ok", "err"}
          /\ Running(Positions) = {}
    /\ (stream_result.status \in {"unpolled", "pending"} \/ Running(Positions) # {})
          => apc = "collecting"

\* one node has completed, its rows are merged, the channel is empty, and
\* another node is still reading its cursor
C24_Witness ==
    /\ \E n \in Nodes : npc[n] = "done" /\ Len(received[n]) > 0
    /\ \E n \in Nodes : npc[n] = "next" /\ fetched[n] < script[n].len
    /\ chan = <<>>
    /\ apc = "collecting"

(***************************************************************************)
(* Properties of the grouping tables (SpecMerge).                          *)
(***************************************************************************)
\* C25 as stated: after any sequence of rows merged for a fingerprint, each
\* of the eight raw counters and each of the six impact scores of its record
\* is the sum of that field over those rows, min_event_time is the least of
\* the rows' min_event_time and max_event_time the greatest of the rows'
\* max_event_time.
C25_RecordIsSumMinMax ==
    cmd = "top_queries" =>
        \A k \in DOMAIN queries :
            /\ \A f \in RawFields \cup ImpactFields :
                  queries[k][f] = SumAt(MergedRows, RowsOfFingerprint(k), f)
            /\ \E i \in RowsOfFingerprint(k) :
                  queries[k].min_event_time = MergedRows[i].min_event_time
            /\ \A i \in RowsOfFingerprint(k) :
                  queries[k].min_event_time <= MergedRows[i].min_event_time
            /\ \E i \in RowsOfFingerprint(k) :
                  queries[k].max_event_time = MergedRows[i].max_event_time
            /\ \A i \in RowsOfFingerprint(k) :
                  queries[k].max_event_time >= MergedRows[i].max_event_time

\* C25 apart from overflow: the same, each field being the sum as long as
\* that sum is below 2^64.
C25_RecordIsSumMinMaxInRange ==
    cmd = "top_queries" =>
        \A k \in DOMAIN queries :
            /\ \A f \in RawFields \cup ImpactFields :
                  SumAt(MergedRows, RowsOfFingerprint(k), f) < U64Modulus =>
                      queries[k][f] = SumAt(MergedRows, RowsOfFingerprint(k), f)
            /\ \E i \in RowsOfFingerprint(k) :
                  queries[k].min_event_time = MergedRows[i].min_event_time
            /\ \A i \in RowsOfFingerprint(k) :
                  queries[k].min_event_time <= MergedRows[i].min_event_time
            /\ \E i \in RowsOfFingerprint(k) :
                  queries[k].max_event_time = MergedRows[i].max_event_time
            /\ \A i \in RowsOfFingerprint(k) :
                  queries[k].max_event_time >= MergedRows[i].max_event_time

\* the grouping table of the command, and the key a row carries
GroupingTable == IF cmd = "top_queries" THEN queries ELSE errors

KeyOf(row) ==
    IF cmd = "top_queries" THEN row.normalized_query_hash ELSE row.code

KeysReceived == {KeyOf(MergedRows[i]) : i \in 1..Len(MergedRows)}

\* C26: at every point the grouping table holds exactly one record for each
\* key among the rows received so far and nothing else, each stored under
\* the key it carries; the first row of a key creates its record as that
\* row, a later row of the key changes that record only, and no record is
\* removed, so the set of keys only grows.
C26_OneRecordPerKey ==
    [][ cmd # "total_queries" =>
          /\ DOMAIN GroupingTable' = KeysReceived'
          /\ \A k \in DOMAIN GroupingTable' : KeyOf(GroupingTable'[k]) = k
          /\ DOMAIN GroupingTable \subseteq DOMAIN GroupingTable'
          /\ Len(MergedRows') = Len(MergedRows) + 1 =>
                LET row == MergedRows'[Len(MergedRows')]
                IN  /\ KeyOf(row) \notin DOMAIN GroupingTable
                          => GroupingTable'[KeyOf(row)] = row
                    /\ DOMAIN GroupingTable' = DOMAIN GroupingTable \cup {KeyOf(row)}
                    /\ \A k \in DOMAIN GroupingTable :
                          k # KeyOf(row) => GroupingTable'[k] = GroupingTable[k]
      ]_vars

\* three rows received, two of one key and one of another: two records
C26_Witness ==
    /\ cmd # "total_queries"
    /\ Len(MergedRows) = 3
    /\ Cardinality(DOMAIN GroupingTable) = 2
    /\ KeysReceived = DOMAIN GroupingTable

\* the weight table of client.rs:205-209, in unbounded integers
WeightTable(q) ==
    /\ q.io_impact = q.total_read_rows * 100 + q.total_read_bytes
    /\ q.network_impact
          = (q.total_network_receive_bytes + q.total_network_send_bytes) * 10
    /\ q.cpu_impact = (q.total_user_time_us + q.total_system_time_us) * 10000
    /\ q.memory_impact = q.total_memory_usage * 10
    /\ q.time_impact = q.total_query_duration_ms * 1000000

\* the rows merged so far each satisfy the weight table
RowsSatisfyWeightTable == \A i \in 1..Len(MergedRows) : WeightTable(MergedRows[i])

\* C27 as stated: after any sequence of merges of rows that each satisfy the
\* weight table, every record's five impact scores satisfy the weight table
\* against the record's own merged raw counters.
C27_RecordSatisfiesWeightTable ==
    (cmd = "top_queries" /\ RowsSatisfyWeightTable) =>
        \A k \in DOMAIN queries : WeightTable(queries[k])

\* C27 apart from overflow: the same for the records whose five scores, over
\* the rows merged, each add up below 2^64.
C27_RecordSatisfiesWeightTableInRange ==
    (cmd = "top_queries" /\ RowsSatisfyWeightTable) =>
        \A k \in DOMAIN queries :
            (\A f \in ImpactFields \ {"total_impact"} :
                SumAt(MergedRows, RowsOfFingerprint(k), f) < U64Modulus)
            => WeightTable(queries[k])

\* analyzer.rs:160-164 run on a given sequence of rows: each is merged in turn
RECURSIVE MergeAllErrors(_, _)
MergeAllErrors(es, rows) ==
    IF rows = <<>> THEN es
    ELSE MergeAllErrors(merge_error(es, Head(rows)), Tail(rows))

\* the (code, count, last_error_time) triples of a ranking
Triples(top) ==
    [i \in 1..Len(top) |-> <<top[i].code, top[i].count, top[i].last_error_time>>]

\* C29: the sequence of (code, count, last_error_time) triples top_errors
\* returns is the one it returns for the same rows received in any other
\* order, under the same limit.
C29_TopErrorsIgnoresArrivalOrder ==
    (cmd = "top_errors" /\ apc = "finalized") =>
        \A p \in MergeOrders(Len(MergedRows)) :
            LET rows == [i \in 1..Len(MergedRows) |-> MergedRows[p[i]]]
            IN  \A top \in Analyzer_top_errors(MergeAllErrors(EmptyMap, rows),
                                               req.limit) :
                    Triples(top) = Triples(analyzer_result[1])

\* a ranking over rows of one code of which the latest in time was not the
\* last received
C29_Witness ==
    /\ cmd = "top_errors"
    /\ apc = "finalized"
    /\ Len(analyzer_result[1]) > 0
    /\ \E i, j \in 1..Len(MergedRows) :
          /\ i < j
          /\ MergedRows[i].code = MergedRows[j].code
          /\ MergedRows[i].last_error_time > MergedRows[j].last_error_time
          /\ \E k \in 1..Len(analyzer_result[1]) :
                analyzer_result[1][k].code = MergedRows[i].code

(***************************************************************************)
(* The profile store, context.rs: a Context holds the config read from     *)
(* the config file and the --context override; passwords live in the       *)
(* system keyring.  Reads and writes of the file and of the keyring can    *)
(* fail.                                                                   *)
(***************************************************************************)
ProfileNames == {"prod", "stage"}

ProfileUsers == {"default", "admin"}

\* model.rs:136-143, a ContextProfile as the set-profile command builds it
ContextProfile(user, password) ==
    [ user |-> user, password |-> password, urls |-> <<"http://ch1:8123">>,
      accept_invalid_certificate |-> FALSE ]

ContextProfiles == { ContextProfile(u, "secret") : u \in ProfileUsers }

\* model.rs:171-175, ContextConfig::default()
ContextConfig_default == [ current |-> None, profiles |-> [n \in {} |-> 0] ]

\* The path of the config file: the default one in the config directory, or
\* the empty path given as --config, which has no parent directory and
\* names no file.
DefaultPath == "clickcheck/config.toml"

EmptyPath == ""

ConfigPaths == {None, Some(EmptyPath)}

\* A text is TOML or not; TOML holds the keys it holds.  toml::to_string_pretty
\* of a ContextConfig writes `current` when it is set and the profiles table,
\* without the passwords (model.rs:139, #[serde(skip)]).
toml_to_string_pretty(config) ==
    [ toml |-> TRUE,
      current |-> config.current,
      profiles |->
          Some([ n \in DOMAIN config.profiles |->
                   [ user |-> config.profiles[n].user,
                     urls |-> config.profiles[n].urls,
                     accept_invalid_certificate |->
                         config.profiles[n].accept_invalid_certificate ] ]) ]

\* texts write_to_file did not write: one that is not TOML, and a TOML text
\* without a profiles table
NotToml == [toml |-> FALSE]

NoProfilesTable == [toml |-> TRUE, current |-> Some("prod"), profiles |-> None]

\* toml::from_str::<ContextConfig>: fails on a text that is not TOML and on
\* one without the profiles table, which has no default; a skipped field is
\* read as its default, the empty secret
toml_from_str(content) ==
    IF ~content.toml \/ ~content.profiles.some
    THEN [ok |-> FALSE]
    ELSE [ ok |-> TRUE,
           value |->
             [ current |-> content.current,
               profiles |->
                 [ n \in DOMAIN content.profiles.value |->
                     [ user |-> content.profiles.value[n].user,
                       password |-> "",
                       urls |-> content.profiles.value[n].urls,
                       accept_invalid_certificate |->
                           content.profiles.value[n].accept_invalid_certificate ] ] ] ]

\* context.rs:27-46
ContextError_ReadConfig == [kind |-> "ReadConfig", name |-> ""]

ContextError_ParseToml == [kind |-> "ParseToml", name |-> ""]

ContextError_InvalidPath == [kind |-> "InvalidPath", name |-> ""]

ContextError_PersistTempFile == [kind |-> "PersistTempFile", name |-> ""]

ContextError_ProfileNotFound(name) == [kind |-> "ProfileNotFound", name |-> name]

ContextError_KeyringError == [kind |-> "KeyringError", name |-> ""]

ContextOk(op, v) == [op |-> op, status |-> "Ok", value |-> v]

ContextErr(op, e) == [op |-> op, status |-> "Err", error |-> e]

\* HashMap::remove
MapRemove(m, k) == [x \in DOMAIN m \ {k} |-> m[x]]

\* context.rs:117-121
Context_active_profile_name(c) ==
    IF c.override_name.some THEN c.override_name ELSE c.config.current

\* context.rs:173-183: the profile of the table, its password read from the
\* keyring
Context_get_profile(c, kr, name, keyring_ok) ==
    IF name \notin DOMAIN c.config.profiles
    THEN ContextErr("profile", ContextError_ProfileNotFound(name))
    ELSE IF ~keyring_ok \/ name \notin DOMAIN kr
    THEN ContextErr("profile", ContextError_KeyringError)
    ELSE ContextOk("profile", Some([c.config.profiles[name] EXCEPT !.password = kr[name]]))

\* How the writing of the temporary file and its renaming end: well, with an
\* io error of creating, writing or flushing the temporary file (which `?`
\* turns into ReadConfig, context.rs:30-31, 202-204), or with an error of
\* persist (context.rs:206).  Serializing a ContextConfig (strings, a list of
\* strings and a boolean under a table of tables) has no failing case.
WriteOutcomes == {"ok", "ReadConfig", "PersistTempFile"}

\* context.rs:192-208, write_to_file: a path without a parent is InvalidPath
\* before anything is written; otherwise the file is replaced whole, or an
\* error is returned and the file is left as it was
Context_write_to_file(c, outcome) ==
    IF c.path = EmptyPath
    THEN [file |-> file, error |-> Some(ContextError_InvalidPath)]
    ELSE IF outcome = "ok"
    THEN [ file |-> [exists |-> TRUE, content |-> toml_to_string_pretty(c.config)],
           error |-> None ]
    ELSE [file |-> file, error |-> Some([kind |-> outcome, name |-> ""])]

\* what a method that ends with write_to_file returns
Written(op, w) ==
    IF w.error.some THEN ContextErr(op, w.error.value) ELSE ContextOk(op, None)

\* context.rs:68-109, Context::new(config_path, override_name).  Without
\* --config the path lies in the config directory, if there is one.  The
\* directory is created when the path has a parent, the file is read when it
\* exists; both can fail with an io error.
Context_new(config_path, override_name) ==
    \E has_config_dir, io_ok \in BOOLEAN :
        LET path == IF config_path.some THEN config_path.value ELSE DefaultPath
            exists == path = DefaultPath /\ file.exists
            parsed == IF exists THEN toml_from_str(file.content)
                      ELSE [ok |-> TRUE, value |-> ContextConfig_default]
            error ==
                IF ~config_path.some /\ ~has_config_dir
                THEN Some(ContextError_InvalidPath)
                ELSE IF path # EmptyPath /\ ~io_ok
                THEN Some(ContextError_ReadConfig)
                ELSE IF ~parsed.ok
                THEN Some(ContextError_ParseToml)
                ELSE IF /\ override_name.some
                        /\ override_name.value \notin DOMAIN parsed.value.profiles
                THEN Some(ContextError_ProfileNotFound(override_name.value))
                ELSE None
        IN  /\ IF error.some
               THEN /\ ctx' = NoContext
                    /\ ctx_result' = ContextErr("new", error.value)
               ELSE /\ ctx' = [ status |-> "ok", path |-> path,
                                config |-> parsed.value,
                                override_name |-> override_name ]
                    /\ ctx_result' = ContextOk("new", None)
            /\ UNCHANGED << file, keyring >>

\* context.rs:133-140, set_profile(profile, name)
Context_set_profile(profile, name) ==
    /\ ctx.status = "ok"
    /\ \E keyring_ok \in BOOLEAN, outcome \in WriteOutcomes :
          IF ~keyring_ok
          THEN /\ ctx_result' = ContextErr("set_profile", ContextError_KeyringError)
               /\ UNCHANGED << ctx, file, keyring >>
          ELSE LET c == [ctx EXCEPT !.config.profiles = MapInsert(@, name, profile)]
                   w == Context_write_to_file(c, outcome)
               IN  /\ keyring' = MapInsert(keyring, name, profile.password)
                   /\ ctx' = c
                   /\ file' = w.file
                   /\ ctx_result' = Written("set_profile", w)

\* context.rs:145-156, delete_profile(name): the profile leaves the table;
\* config.current is not looked at
Context_delete_profile(name) ==
    /\ ctx.status = "ok"
    /\ \E keyring_ok \in BOOLEAN, outcome \in WriteOutcomes :
          IF name \notin DOMAIN ctx.config.profiles
          THEN /\ ctx_result' =
                      ContextErr("delete_profile", ContextError_ProfileNotFound(name))
               /\ UNCHANGED << ctx, file, keyring >>
          ELSE IF ~keyring_ok \/ name \notin DOMAIN keyring
          THEN /\ ctx_result' = ContextErr("delete_profile", ContextError_KeyringError)
               /\ UNCHANGED << ctx, file, keyring >>
          ELSE LET c == [ctx EXCEPT !.config.profiles = MapRemove(@, name)]
                   w == Context_write_to_file(c, outcome)
               IN  /\ keyring' = MapRemove(keyring, name)
                   /\ ctx' = c
                   /\ file' = w.file
                   /\ ctx_result' = Written("delete_profile", w)

\* context.rs:161-170, set_default(name)
Context_set_default(name) ==
    /\ ctx.status = "ok"
    /\ \E outcome \in WriteOutcomes :
          IF name \notin DOMAIN ctx.config.profiles
          THEN /\ ctx_result' =
                      ContextErr("set_default", ContextError_ProfileNotFound(name))
               /\ UNCHANGED << ctx, file >>
          ELSE LET c == [ctx EXCEPT !.config.current = Some(name)]
                   w == Context_write_to_file(c, outcome)
               IN  /\ ctx' = c
                   /\ file' = w.file
                   /\ ctx_result' = Written("set_default", w)
    /\ UNCHANGED keyring

\* context.rs:124-128, profile(): the active profile is resolved, as
\* lib.rs:134 does before a client is built
Context_profile ==
    /\ ctx.status = "ok"
    /\ \E keyring_ok \in BOOLEAN :
          LET name == Context_active_profile_name(ctx)
          IN  ctx_result' =
                  IF name.some
                  THEN Context_get_profile(ctx, keyring, name.value, keyring_ok)
                  ELSE ContextOk("profile", None)
    /\ UNCHANGED << ctx, file, keyring >>

\* no query is built and no pipeline runs while profiles are managed
ContextOnly ==
    UNCHANGED << cmd, req, capacity, overflow_checks, nodes, script, hpc,
                 stream_result, first_failure, npc, qpc, fetched, pending, chan,
                 apc, total_queries, queries, errors, received,
                 analyzer_result, printed, filter, now, built, args,
                 node_query >>

\* the config file when the process starts: none, or one that was written
\* by hand
InitialFiles ==
    { NoFile,
      [exists |-> TRUE, content |-> NotToml],
      [exists |-> TRUE, content |-> NoProfilesTable] }

\* the process has started: nothing has been read or written yet
InitContext ==
    /\ cmd = "top_queries"
    /\ req = DefaultRequest(cmd)
    /\ capacity = CHANNEL_CAPACITY
    /\ overflow_checks = FALSE
    /\ nodes = 0
    /\ script = NoRows
    /\ hpc = "none"
    /\ stream_result = NoStream
    /\ npc = NoRows
    /\ qpc = NoQuiet
    /\ fetched = NoRows
    /\ pending = NoRows
    /\ chan = <<>>
    /\ received = NoRows
    /\ InitCommon
    /\ filter = NoFilter
    /\ now = 0
    /\ built = NotBuilt
    /\ args = NoArgs
    /\ node_query = <<>>
    /\ ctx = NoContext
    /\ file \in InitialFiles
    /\ keyring = [n \in {} |-> ""]
    /\ ctx_result = NoResult

NextContext ==
    \/ \E p \in ConfigPaths, o \in {None} \cup {Some(n) : n \in ProfileNames} :
          Context_new(p, o) /\ ContextOnly
    \/ \E p \in ContextProfiles, n \in ProfileNames :
          Context_set_profile(p, n) /\ ContextOnly
    \/ \E n \in ProfileNames : Context_delete_profile(n) /\ ContextOnly
    \/ \E n \in ProfileNames : Context_set_default(n) /\ ContextOnly
    \/ Context_profile /\ ContextOnly

SpecContext == InitContext /\ [][NextContext]_vars

\* C30: on a Context constructed without an override, after any sequence of
\* set_profile, delete_profile and set_default, the default profile name
\* config.current, when set, is a key of config.profiles, and resolving the
\* active profile does not return ProfileNotFound.
C30_CurrentNamesExistingProfile ==
    (ctx.status = "ok" /\ ~ctx.override_name.some) =>
        /\ ctx.config.current.some =>
              ctx.config.current.value \in DOMAIN ctx.config.profiles
        /\ ~ /\ ctx_result.op = "profile"
             /\ ctx_result.status = "Err"
             /\ ctx_result.error.kind = "ProfileNotFound"

\* what does hold: the name set_default stores is a key of the profile table
\* at the time it is stored
C30_SetDefaultStoresExistingProfile ==
    (/\ ctx_result.op = "set_default"
     /\ ctx_result.status = "Ok") =>
        /\ ctx.config.current.some
        /\ ctx.config.current.value \in DOMAIN ctx.config.profiles

====
